---- MODULE Spec2Model ----
(***************************************************************************)
(* Model of the modem command session of dynamic_logging.py: the serial    *)
(* command executor, the configuration and registration bootstrap, the     *)
(* telemetry loop and the flight-mode cycle, with the modem as the         *)
(* environment that answers every exchange.                                *)
(*                                                                         *)
(* Texts that the code inspects (responses, log lines) are sequences of    *)
(* one-character strings, so that substring tests, strip(), splitlines()   *)
(* and startswith() are computed as Python computes them.  Commands are    *)
(* named by their literal text; CommandChars gives the characters of the   *)
(* commands whose text the code inspects.                                  *)
(***************************************************************************)
EXTENDS Integers, Sequences, FiniteSets, TLC

VARIABLES
    mode,              \* which session function runs: "TELEMETRY" (SELECT_LOGGING 1, 3) or "FLIGHT" (4)
    max_retries,       \* TIMES_RETRY as passed to configure_sim_module
    ser,               \* the modem port handle: "unopened", "open" or "None"
    pc,                \* the exchange the session performs next
    cmd_i,             \* position of the running for-loop in its command list
    attempt,           \* registration polls performed so far
    config_responses,  \* (command, response) pairs collected by configure_sim_module
    modem_configured,  \* result of configure_sim_module: "unset", "True", "False", "None"
    response,          \* result of the most recent com_port_read_write
    sent,              \* every command written to the modem port, in order
    slept,             \* seconds slept by the most recent step
    diag,              \* messages the most recent step put on the diagnostic stream
    log,               \* lines of the modem log file
    file_opens,        \* number of times the modem log file was opened
    message_response,  \* tcp_connection_test: the summary items collected so far
    tcp_status,        \* telemetry iteration: TCP-probe summary
    nw_eps_status,     \* telemetry iteration: EPS registration status
    nw_status,         \* telemetry iteration: legacy registration status
    rf_status,         \* telemetry iteration: RF status
    max_msg_count,     \* pump_data_to_server: messages still to send
    loops,             \* completed passes of the operating loop's while True
    flushed,           \* lines of the modem log file handed to the operating system (f.flush)
    durable,           \* lines of the modem log file forced to storage (os.fsync)
    gnss_ser,          \* the GNSS port handle: "unopened", "open" or "None"
    gnss_pc,           \* position of the GNSS task: "start", "read", "ended" or "failed"
    gnss_log,          \* lines of the GNSS log file
    gnss_flushed,      \* lines of the GNSS log file handed to the operating system
    gnss_durable,      \* lines of the GNSS log file forced to storage
    main_pc,           \* position of the main thread: [at, i, exc]
    futures,           \* the state of each task's function: "unsubmitted", "running", ...
    SELECT_LOGGING,    \* the operating-mode selector (dynamic_logging.py:18)
    call,              \* a function called on its own: its name, arguments and result
    port_in,           \* bytes waiting in the input buffer of the serial port
    port_ops           \* what the most recent com_port_read_write did to the port, in order

vars == <<mode, max_retries, ser, pc, cmd_i, attempt, config_responses, modem_configured,
          response, sent, slept, diag, log, file_opens, message_response, tcp_status,
          nw_eps_status, nw_status, rf_status, max_msg_count, loops, flushed, durable,
          gnss_ser, gnss_pc, gnss_log, gnss_flushed, gnss_durable, main_pc, futures,
          SELECT_LOGGING, call, port_in, port_ops>>

(***************************************************************************)
(* Bounds of the model.                                                    *)
(***************************************************************************)
MaxRetries == 2      \* TIMES_RETRY ranges over 0..MaxRetries
MaxRecords == 1      \* telemetry passes explored
MaxCycles == 2       \* flight-mode [enable, disable] cycles explored
MaxFrames == 1       \* GNSS frames explored

(***************************************************************************)
(* Python text operations on sequences of characters.                      *)
(***************************************************************************)
Whitespace == {" ", "\t", "\n", "\r", "\f"}

RECURSIVE lstrip(_)
lstrip(s) == IF s # <<>> /\ Head(s) \in Whitespace THEN lstrip(Tail(s)) ELSE s

RECURSIVE rstrip(_)
rstrip(s) ==
    IF s # <<>> /\ s[Len(s)] \in Whitespace THEN rstrip(SubSeq(s, 1, Len(s) - 1)) ELSE s

\* str.strip()
strip(s) == rstrip(lstrip(s))

\* sub in s
In(sub, s) == \E k \in 0..(Len(s) - Len(sub)) : SubSeq(s, k + 1, k + Len(sub)) = sub

\* s.startswith(prefix)
startswith(s, prefix) == Len(prefix) <= Len(s) /\ SubSeq(s, 1, Len(prefix)) = prefix

\* str.splitlines(): breaks at \n, \r and \r\n; no empty last line
RECURSIVE SplitFrom(_, _, _, _)
SplitFrom(s, k, cur, acc) ==
    IF k > Len(s) THEN (IF cur = <<>> THEN acc ELSE Append(acc, cur))
    ELSE IF s[k] = "\r" /\ k < Len(s) /\ s[k + 1] = "\n"
         THEN SplitFrom(s, k + 2, <<>>, Append(acc, cur))
    ELSE IF s[k] \in {"\n", "\r", "\f"} THEN SplitFrom(s, k + 1, <<>>, Append(acc, cur))
    ELSE SplitFrom(s, k + 1, Append(cur, s[k]), acc)

splitlines(s) == SplitFrom(s, 1, <<>>, <<>>)

\* sep.join(items)
RECURSIVE join(_, _)
join(sep, items) ==
    IF items = <<>> THEN <<>>
    ELSE IF Len(items) = 1 THEN items[1]
    ELSE items[1] \o sep \o join(sep, Tail(items))

(***************************************************************************)
(* Command vocabulary (dynamic_logging.py:44-80).                          *)
(***************************************************************************)
cfg_commands == <<"AT", "AT+COPS=2", "AT+CGDCONT=1,\"IP\",\"wbdata\"", "AT+COPS=0",
                  "AT+WS46=30", "AT#WS46=0,0", "AT#BND=0,0,524420,0,0", "AT#REBOOT">>

signal_commands == <<"AT+CESQ", "AT#SGACT=1,0", "AT#SGACT=1,1">>

nw_eps_reg_status == "AT+CEREG?"

nw_reg_status == "AT+CREG?"

tcp_connect_commands == <<"AT#SGACT?", "AT#SD=1,0,7,\"echo.u-blox.com\",0,0,1">>

message_to_server == <<"AT#SSEND=1", "TCP_TEST_OK", "\\x1a">>

socket_commands == <<"AT#SI", "AT#SS">>

msg_in_response == <<"T","C","P","_","T","E","S","T","_","O","K">>

message_from_server == "AT#SRECV=1,1500"

rf_status_command == "AT#RFSTS"

cops_check_command == "AT+COPS?"

flight_mode_commands == <<"AT+CFUN=1", "AT+CFUN=4">>

pump_dummy_msg == "aasdgajgfsdfhgafdsakjfgadskjfgiweuryaioweuryiuwyfhaksjdbvdsmbvkdshakfhdaklsfhklahfksdfhakdashfklsdhfkasdfkshalkfhafklhdsafdksjahfkdashfklahfdklsajfhkasdhfahieuwryioqyeifofiufbvyiyviyvqioiqoviuytvqiobyvqotbvyqtvyqoityvqoitbvqtvbytebvqityvetbvyitvybtvqiytqboitvyotvyqityqiwebvotyibwevytibvweytiwytvibakhksgdkjasj\\x1a"

\* the characters of the flight-mode commands, which the flight cycle inspects
CommandChars ==
    [c \in {"AT+CFUN=1", "AT+CFUN=4"} |->
        IF c = "AT+CFUN=1" THEN <<"A","T","+","C","F","U","N","=","1">>
        ELSE <<"A","T","+","C","F","U","N","=","4">>]

(***************************************************************************)
(* The command executor.  The port's behaviour during one exchange is a    *)
(* raw outcome: an exception raised by the port or by decode(), or the     *)
(* bytes that arrived before the timeout.                                  *)
(***************************************************************************)
None == [ok |-> FALSE, text |-> <<>>]

Text(t) == [ok |-> TRUE, text |-> t]

SerialError == [exc |-> "SerialException", bytes |-> <<>>]

DecodeError == [exc |-> "UnicodeDecodeError", bytes |-> <<>>]

Bytes(b) == [exc |-> "", bytes |-> b]

\* com_port_read_write: the value returned for a raw outcome
com_port_read_write(raw) ==
    IF raw.exc \in {"SerialException", "UnicodeDecodeError"} THEN None
    ELSE Text(strip(raw.bytes))

(***************************************************************************)
(* What the modem may put on the wire in answer to a command               *)
(* (dynamic_logging.py:23-42 lists the expected answers).                  *)
(***************************************************************************)
OK_BYTES == <<"\r","\n","O","K","\r","\n">>

ERROR_BYTES == <<"\r","\n","E","R","R","O","R","\r","\n">>

COPS_LTE_BYTES ==
  <<"\r","\n","+","C","O","P","S",":"," ","0",",","0",",","\"","O","r","a","n","g","e"," ","F","\"",
  ",","8","\r","\n","\r","\n","O","K","\r","\n">>

COPS_GSM_BYTES ==
  <<"\r","\n","+","C","O","P","S",":"," ","0",",","0",",","\"","O","r","a","n","g","e"," ","F","\"",
  ",","2","\r","\n","\r","\n","O","K","\r","\n">>

\* numeric operator format: the operator code of Orange F, registered on GSM
COPS_NUMERIC_BYTES ==
  <<"\r","\n","+","C","O","P","S",":"," ","0",",","2",",","\"","2","0","8","0","1","\"",",","2",
  "\r","\n","\r","\n","O","K","\r","\n">>

SRECV_ECHO_BYTES ==
  <<"\r","\n","#","S","R","E","C","V",":"," ","1",",","1","1","\r","\n","T","C","P","_","T","E","S",
  "T","_","O","K","\r","\n","\r","\n","O","K","\r","\n">>

SI_BYTES ==
  <<"\r","\n","#","S","I",":"," ","1",",","1","1",",","1","1",",","0",",","0","\r","\n","\r","\n",
  "O","K","\r","\n">>

SS_BYTES == <<"\r","\n","#","S","S",":"," ","1",",","2","\r","\n","\r","\n","O","K","\r","\n">>

CEREG_BYTES ==
  <<"\r","\n","+","C","E","R","E","G",":"," ","0",",","5","\r","\n","\r","\n","O","K","\r","\n">>

CREG_BYTES ==
  <<"\r","\n","+","C","R","E","G",":"," ","0",",","5","\r","\n","\r","\n","O","K","\r","\n">>

RFSTS_BYTES ==
  <<"\r","\n","#","R","F","S","T","S",":","\"","2","0","8"," ","0","1","\"",",","6","4","0","0",",",
  "-","9","0",",","-","9","5",",","-","1","0",".","0","\r","\n","\r","\n","O","K","\r","\n">>

Failures == {SerialError, DecodeError}

ModemReplies(command) ==
    Failures \cup
    CASE command = cops_check_command ->
            {Bytes(<<>>), Bytes(COPS_LTE_BYTES), Bytes(COPS_GSM_BYTES), Bytes(COPS_NUMERIC_BYTES)}
      [] command = message_from_server -> {Bytes(<<>>), Bytes(ERROR_BYTES), Bytes(SRECV_ECHO_BYTES)}
      [] command = "AT#SI" -> {Bytes(ERROR_BYTES), Bytes(SI_BYTES)}
      [] command = "AT#SS" -> {Bytes(ERROR_BYTES), Bytes(SS_BYTES)}
      [] command = nw_eps_reg_status -> {Bytes(ERROR_BYTES), Bytes(CEREG_BYTES)}
      [] command = nw_reg_status -> {Bytes(ERROR_BYTES), Bytes(CREG_BYTES)}
      [] command = rf_status_command -> {Bytes(ERROR_BYTES), Bytes(RFSTS_BYTES)}
      [] OTHER -> {Bytes(<<>>), Bytes(OK_BYTES), Bytes(ERROR_BYTES)}

(***************************************************************************)
(* The tasks of the process (dynamic_logging.py:391-394, 406-409).         *)
(***************************************************************************)
Tasks == {"gnss", "modem"}

\* no function is being called on its own
NoCall == [fn |-> "", args |-> <<>>, ret |-> <<>>]

(***************************************************************************)
(* Initial state: the process has started, nothing is opened yet.  The     *)
(* modem session is called directly (SELECT_LOGGING = 3), or seen on its   *)
(* own.                                                                    *)
(***************************************************************************)
Init ==
    /\ mode \in {"TELEMETRY", "FLIGHT"}
    /\ max_retries \in 0..MaxRetries
    /\ ser = "unopened"
    /\ pc = "start"
    /\ cmd_i = 1
    /\ attempt = 0
    /\ config_responses = <<>>
    /\ modem_configured = "unset"
    /\ response = None
    /\ sent = <<>>
    /\ slept = 0
    /\ diag = <<>>
    /\ log = <<>>
    /\ file_opens = 0
    /\ message_response = <<>>
    /\ tcp_status = <<>>
    /\ nw_eps_status = <<>>
    /\ nw_status = <<>>
    /\ rf_status = <<>>
    /\ max_msg_count = 0
    /\ loops = 0
    /\ flushed = 0
    /\ durable = 0
    /\ gnss_ser = "unopened"
    /\ gnss_pc = "start"
    /\ gnss_log = <<>>
    /\ gnss_flushed = 0
    /\ gnss_durable = 0
    /\ main_pc = [at |-> "direct", i |-> 0, exc |-> FALSE]
    /\ futures = [task \in Tasks |-> "unsubmitted"]
    /\ SELECT_LOGGING = (IF mode = "TELEMETRY" THEN 3 ELSE 4)
    /\ call = NoCall
    /\ port_in = <<>>
    /\ port_ops = <<>>

\* the name of the running session function, as it appears in its messages
SessionName == IF mode = "FLIGHT" THEN "pump_modem_data_with_flight_mode"
               ELSE "read_and_log_modem_data"

\* variant: every session enters the telemetry loop
LoopStart_always_telemetry == "tcp_connect"

\* the first exchange of the operating loop
LoopStart == IF mode = "FLIGHT" THEN "toggle" ELSE "tcp_connect"

unchanged_telemetry == UNCHANGED <<message_response, tcp_status, nw_eps_status, nw_status, rf_status>>

\* a step of the modem session leaves the GNSS task and the main thread alone
unchanged_tasks ==
    /\ UNCHANGED <<gnss_ser, gnss_pc, gnss_log, gnss_flushed, gnss_durable, main_pc, futures>>
    /\ UNCHANGED <<SELECT_LOGGING, call, port_in, port_ops>>

\* a step that writes no log line
unchanged_storage == UNCHANGED <<flushed, durable>>

(***************************************************************************)
(* A log file opened with open(path, "a"): the lines written to the file   *)
(* object, how many of them f.flush() has handed to the operating system,  *)
(* and how many of them os.fsync() has forced to storage.                  *)
(***************************************************************************)
LogFile(lines, handed, forced) == [lines |-> lines, flushed |-> handed, durable |-> forced]

\* variant: the write replaces the content of the file
f_write_truncating(f, line) == [f EXCEPT !.lines = <<line>>]

\* f.write(line)
f_write(f, line) == [f EXCEPT !.lines = Append(@, line)]

\* f.flush()
f_flush(f) == [f EXCEPT !.flushed = Len(f.lines)]

\* variant: the record is left in the cache of the operating system
os_fsync_not_called(f) == f

\* os.fsync(f)
os_fsync(f) == [f EXCEPT !.durable = f.flushed]

\* lines 276-278, 284-286, 322-324 and 341-343: one record, committed before the call returns
write_record(f, line) == os_fsync(f_flush(f_write(f, line)))

\* the modem session writes one record to its log file
modem_write(line) ==
    LET f == write_record(LogFile(log, flushed, durable), line)
    IN /\ log' = f.lines
       /\ flushed' = f.flushed
       /\ durable' = f.durable

(***************************************************************************)
(* start_modem_thread / start_pump_modem_thread: open the port; a session  *)
(* runs only on an open port.                                              *)
(***************************************************************************)
start_serial_connection ==
    /\ pc = "start"
    /\ \E opened \in BOOLEAN :
          IF opened
          THEN /\ ser' = "open"
               /\ pc' = "configure"
               /\ diag' = <<"start_serial_connection: Connecting to COM ports...">>
          ELSE /\ ser' = "None"
               /\ pc' = "ended"
               /\ diag' = <<"start_serial_connection: Connecting to COM ports...",
                            "start_serial_connection: Error connecting to COM ports",
                            "failed to get modem serial connection">>
    /\ slept' = 0
    /\ UNCHANGED <<mode, max_retries, cmd_i, attempt, config_responses, modem_configured,
                   response, sent, log, file_opens, max_msg_count, loops>>
    /\ unchanged_telemetry
    /\ unchanged_storage
    /\ unchanged_tasks

(***************************************************************************)
(* configure_sim_module, first loop (dynamic_logging.py:133-144): one      *)
(* configuration command per step.                                         *)
(***************************************************************************)
\* variant: only an explicit ERROR answer is taken as a rejection
cfg_rejected_only_error(cfg_response) ==
    cfg_response.ok /\ In(<<"E","R","R","O","R">>, cfg_response.text)

\* the response makes configure_sim_module return False
cfg_rejected(cfg_response) == cfg_response.ok /\ ~In(<<"O","K">>, cfg_response.text)

\* the state after the response r to config_commands[cmd_i]
ConfigureNext(r) ==
    IF cfg_rejected(r)
    THEN [pc |-> "ended", cmd_i |-> 1, config_responses |-> <<>>, modem_configured |-> "False",
          slept |-> 0,
          diag |-> <<"configure_sim_module: config SIM returned ERROR for command",
                     "Failed to configure modem..">>]
    ELSE IF cmd_i < Len(cfg_commands)
    THEN [pc |-> "configure", cmd_i |-> cmd_i + 1,
          config_responses |->
              IF r.ok
              THEN Append(config_responses, [command |-> cfg_commands[cmd_i], response |-> r.text])
              ELSE config_responses,
          modem_configured |-> "unset", slept |-> 0, diag |-> <<>>]
    ELSE IF max_retries = 0
    THEN [pc |-> "ended", cmd_i |-> 1, config_responses |-> <<>>, modem_configured |-> "None",
          slept |-> 2,
          diag |-> <<"configure_sim_module: Configuration Success, Rebooting Modem...",
                     "Failed to configure modem..">>]
    ELSE [pc |-> "register", cmd_i |-> 1, config_responses |-> <<>>, modem_configured |-> "unset",
          slept |-> 2,
          diag |-> <<"configure_sim_module: Configuration Success, Rebooting Modem...">>]

configure_sim_module_cfg ==
    /\ pc = "configure"
    /\ \E raw \in ModemReplies(cfg_commands[cmd_i]) :
          LET r == com_port_read_write(raw)
              n == ConfigureNext(r)
          IN /\ response' = r
             /\ sent' = Append(sent, cfg_commands[cmd_i])
             /\ pc' = n.pc
             /\ cmd_i' = n.cmd_i
             /\ config_responses' = n.config_responses
             /\ modem_configured' = n.modem_configured
             /\ slept' = n.slept
             /\ diag' = n.diag
    /\ UNCHANGED <<mode, max_retries, ser, attempt, log, file_opens, max_msg_count, loops>>
    /\ unchanged_telemetry
    /\ unchanged_storage
    /\ unchanged_tasks

(***************************************************************************)
(* configure_sim_module, second loop (dynamic_logging.py:146-156): one     *)
(* AT+COPS? poll per step.  On success the session function creates and    *)
(* opens its log file (251-252, 297-298).                                  *)
(***************************************************************************)
\* the registration test of lines 148-149 and 273-274
lte_registered(cops_response) == cops_response.ok /\ In(<<"8">>, cops_response.text)

\* variant: a poll that returned None is repeated without consuming an attempt
RegisterNext_retry_on_none(r) ==
    IF lte_registered(r)
    THEN [pc |-> "signal", attempt |-> attempt + 1, modem_configured |-> "True", slept |-> 0,
          file_opens |-> file_opens + 1,
          diag |-> <<"configure_sim_module: LTE Network registered and roaming">>]
    ELSE IF ~r.ok
    THEN [pc |-> "register", attempt |-> attempt, modem_configured |-> "unset", slept |-> 0,
          file_opens |-> file_opens, diag |-> <<>>]
    ELSE IF attempt + 1 < max_retries
    THEN [pc |-> "register", attempt |-> attempt + 1, modem_configured |-> "unset", slept |-> 1,
          file_opens |-> file_opens,
          diag |-> <<"configure_sim_module: Searching for LTE network. Retry">>]
    ELSE [pc |-> "ended", attempt |-> attempt + 1, modem_configured |-> "None", slept |-> 1,
          file_opens |-> file_opens,
          diag |-> <<"configure_sim_module: Searching for LTE network. Retry",
                     "Failed to configure modem..">>]

\* variant: the session function does not test the result of configure_sim_module
RegisterNext_result_unchecked(r) ==
    IF lte_registered(r) \/ attempt + 1 >= max_retries
    THEN [pc |-> "signal", attempt |-> attempt + 1,
          modem_configured |-> IF lte_registered(r) THEN "True" ELSE "None", slept |-> 0,
          file_opens |-> file_opens + 1, diag |-> <<>>]
    ELSE [pc |-> "register", attempt |-> attempt + 1, modem_configured |-> "unset",
          slept |-> IF r.ok THEN 1 ELSE 0, file_opens |-> file_opens, diag |-> <<>>]

\* variant: the log file is created before the result of configure_sim_module is tested
RegisterNext_file_before_test(r) ==
    IF lte_registered(r)
    THEN [pc |-> "signal", attempt |-> attempt + 1, modem_configured |-> "True", slept |-> 0,
          file_opens |-> file_opens + 1,
          diag |-> <<"configure_sim_module: LTE Network registered and roaming">>]
    ELSE LET searching == IF r.ok THEN <<"configure_sim_module: Searching for LTE network. Retry">>
                          ELSE <<>>
             nap == IF r.ok THEN 1 ELSE 0
         IN IF attempt + 1 < max_retries
            THEN [pc |-> "register", attempt |-> attempt + 1, modem_configured |-> "unset",
                  slept |-> nap, file_opens |-> file_opens, diag |-> searching]
            ELSE [pc |-> "ended", attempt |-> attempt + 1, modem_configured |-> "None",
                  slept |-> nap, file_opens |-> file_opens + 1,
                  diag |-> searching \o <<"Failed to configure modem..">>]

\* the state after the response r to the poll number attempt + 1
RegisterNext(r) ==
    IF lte_registered(r)
    THEN [pc |-> "signal", attempt |-> attempt + 1, modem_configured |-> "True", slept |-> 0,
          file_opens |-> file_opens + 1,
          diag |-> <<"configure_sim_module: LTE Network registered and roaming">>]
    ELSE LET searching == IF r.ok THEN <<"configure_sim_module: Searching for LTE network. Retry">>
                          ELSE <<>>
             nap == IF r.ok THEN 1 ELSE 0
         IN IF attempt + 1 < max_retries
            THEN [pc |-> "register", attempt |-> attempt + 1, modem_configured |-> "unset",
                  slept |-> nap, file_opens |-> file_opens, diag |-> searching]
            ELSE [pc |-> "ended", attempt |-> attempt + 1, modem_configured |-> "None",
                  slept |-> nap, file_opens |-> file_opens,
                  diag |-> searching \o <<"Failed to configure modem..">>]

configure_sim_module_cops ==
    /\ pc = "register"
    /\ \E raw \in ModemReplies(cops_check_command) :
          LET r == com_port_read_write(raw)
              n == RegisterNext(r)
          IN /\ response' = r
             /\ sent' = Append(sent, cops_check_command)
             /\ attempt' = n.attempt
             /\ pc' = n.pc
             /\ modem_configured' = n.modem_configured
             /\ slept' = n.slept
             /\ file_opens' = n.file_opens
             /\ diag' = n.diag
    /\ UNCHANGED <<mode, max_retries, ser, cmd_i, config_responses, log, max_msg_count, loops>>
    /\ unchanged_telemetry
    /\ unchanged_storage
    /\ unchanged_tasks

(***************************************************************************)
(* The signal-quality queries both session functions issue once, right     *)
(* after the log file is opened (dynamic_logging.py:253-262, 299-308).     *)
(***************************************************************************)
\* variant: the flight-cycle session issues the first signal-quality query only
signal_query_first_only_in_flight ==
    /\ pc = "signal"
    /\ \E raw \in ModemReplies(signal_commands[cmd_i]) :
          LET r == com_port_read_write(raw)
              last == cmd_i = Len(signal_commands) \/ mode = "FLIGHT"
          IN /\ response' = r
             /\ sent' = Append(sent, signal_commands[cmd_i])
             /\ diag' = <<IF r.ok THEN "signal command and signal status"
                          ELSE "signal command for signal status responded None">>
                        \o (IF last THEN <<"Started logging into file...">> ELSE <<>>)
             /\ pc' = IF last THEN LoopStart ELSE "signal"
             /\ cmd_i' = IF last THEN 1 ELSE cmd_i + 1
    /\ slept' = 0
    /\ UNCHANGED <<mode, max_retries, ser, attempt, config_responses, modem_configured, log,
                   file_opens, max_msg_count, loops>>
    /\ unchanged_telemetry
    /\ unchanged_storage
    /\ unchanged_tasks

signal_query ==
    /\ pc = "signal"
    /\ \E raw \in ModemReplies(signal_commands[cmd_i]) :
          LET r == com_port_read_write(raw)
              last == cmd_i = Len(signal_commands)
          IN /\ response' = r
             /\ sent' = Append(sent, signal_commands[cmd_i])
             /\ diag' = <<IF r.ok THEN "signal command and signal status"
                          ELSE "signal command for signal status responded None">>
                        \o (IF last THEN <<"Started logging into file...">> ELSE <<>>)
             /\ pc' = IF last THEN LoopStart ELSE "signal"
             /\ cmd_i' = IF last THEN 1 ELSE cmd_i + 1
    /\ slept' = 0
    /\ UNCHANGED <<mode, max_retries, ser, attempt, config_responses, modem_configured, log,
                   file_opens, max_msg_count, loops>>
    /\ unchanged_telemetry
    /\ unchanged_storage
    /\ unchanged_tasks

(***************************************************************************)
(* tcp_connection_test (dynamic_logging.py:176-215), one exchange per step.*)
(***************************************************************************)
MsgHead == <<"#","M","S","G",":">>

MsgNone == <<"#","M","S","G",":"," ","N","o","n","e">>

\* a list of lines cut to its first element
FirstOf(lines) == IF lines = <<>> THEN <<>> ELSE <<lines[1]>>

\* lines 189-198: the message-response items for the answer to message_from_server
message_items(r) ==
    IF r.ok
    THEN <<MsgHead>> \o FirstOf(SelectSeq(splitlines(r.text), LAMBDA line : In(msg_in_response, line)))
    ELSE <<MsgNone>>

\* lines 203-213: the item a socket command's answer adds
socket_items(sock_response) ==
    IF sock_response.ok
    THEN FirstOf(SelectSeq(splitlines(sock_response.text),
                           LAMBDA line : \/ startswith(line, <<"#","S","I",":"," ","1">>)
                                         \/ startswith(line, <<"#","S","S",":"," ","1">>)))
    ELSE <<>>

\* variant: a socket open that was not acknowledged ends the probe at once
tcp_connect_aborts_on_failure ==
    /\ pc = "tcp_connect"
    /\ loops < MaxRecords
    /\ \E raw \in ModemReplies(tcp_connect_commands[cmd_i]) :
          LET r == com_port_read_write(raw)
              aborted == cmd_i = Len(tcp_connect_commands) /\ ~(r.ok /\ In(<<"O","K">>, r.text))
          IN /\ response' = r
             /\ pc' = IF aborted THEN "nw_eps"
                      ELSE IF cmd_i = Len(tcp_connect_commands) THEN "tcp_send" ELSE "tcp_connect"
             /\ tcp_status' = IF aborted THEN <<>> ELSE tcp_status
    /\ sent' = Append(sent, tcp_connect_commands[cmd_i])
    /\ message_response' = <<>>
    /\ diag' = <<"tcp_connection_test: server_response">>
    /\ cmd_i' = IF cmd_i = Len(tcp_connect_commands) THEN 1 ELSE cmd_i + 1
    /\ slept' = 0
    /\ UNCHANGED <<mode, max_retries, ser, attempt, config_responses, modem_configured, log,
                   file_opens, nw_eps_status, nw_status, rf_status, max_msg_count, loops>>
    /\ unchanged_storage
    /\ unchanged_tasks

tcp_connect ==
    /\ pc = "tcp_connect"
    /\ loops < MaxRecords
    /\ \E raw \in ModemReplies(tcp_connect_commands[cmd_i]) :
          response' = com_port_read_write(raw)
    /\ sent' = Append(sent, tcp_connect_commands[cmd_i])
    /\ message_response' = <<>>
    /\ diag' = <<"tcp_connection_test: server_response">>
    /\ pc' = IF cmd_i = Len(tcp_connect_commands) THEN "tcp_send" ELSE "tcp_connect"
    /\ cmd_i' = IF cmd_i = Len(tcp_connect_commands) THEN 1 ELSE cmd_i + 1
    /\ slept' = 0
    /\ UNCHANGED <<mode, max_retries, ser, attempt, config_responses, modem_configured, log,
                   file_opens, tcp_status, nw_eps_status, nw_status, rf_status, max_msg_count,
                   loops>>
    /\ unchanged_storage
    /\ unchanged_tasks

tcp_send ==
    /\ pc = "tcp_send"
    /\ \E raw \in ModemReplies(message_to_server[cmd_i]) :
          response' = com_port_read_write(raw)
    /\ sent' = Append(sent, message_to_server[cmd_i])
    /\ diag' = <<>>
    /\ pc' = IF cmd_i = Len(message_to_server) THEN "tcp_recv" ELSE "tcp_send"
    /\ cmd_i' = IF cmd_i = Len(message_to_server) THEN 1 ELSE cmd_i + 1
    /\ slept' = 0
    /\ UNCHANGED <<mode, max_retries, ser, attempt, config_responses, modem_configured, log,
                   file_opens, max_msg_count, loops>>
    /\ unchanged_telemetry
    /\ unchanged_storage
    /\ unchanged_tasks

tcp_recv ==
    /\ pc = "tcp_recv"
    /\ \E raw \in ModemReplies(message_from_server) :
          LET r == com_port_read_write(raw)
          IN /\ response' = r
             /\ message_response' = message_response \o message_items(r)
    /\ sent' = Append(sent, message_from_server)
    /\ diag' = <<>>
    /\ pc' = "tcp_sock"
    /\ slept' = 0
    /\ UNCHANGED <<mode, max_retries, ser, cmd_i, attempt, config_responses, modem_configured,
                   log, file_opens, tcp_status, nw_eps_status, nw_status, rf_status,
                   max_msg_count, loops>>
    /\ unchanged_storage
    /\ unchanged_tasks

tcp_sock ==
    /\ pc = "tcp_sock"
    /\ \E raw \in ModemReplies(socket_commands[cmd_i]) :
          LET r == com_port_read_write(raw)
              items == message_response \o socket_items(r)
              last == cmd_i = Len(socket_commands)
          IN /\ response' = r
             /\ message_response' = IF last THEN <<>> ELSE items
             /\ tcp_status' = IF last THEN join(<<" ">>, items) ELSE tcp_status
             /\ pc' = IF last THEN "nw_eps" ELSE "tcp_sock"
             /\ cmd_i' = IF last THEN 1 ELSE cmd_i + 1
    /\ sent' = Append(sent, socket_commands[cmd_i])
    /\ diag' = <<>>
    /\ slept' = 0
    /\ UNCHANGED <<mode, max_retries, ser, attempt, config_responses, modem_configured, log,
                   file_opens, nw_eps_status, nw_status, rf_status, max_msg_count, loops>>
    /\ unchanged_storage
    /\ unchanged_tasks

(***************************************************************************)
(* check_network_status and check_rf_status (dynamic_logging.py:218-244).  *)
(***************************************************************************)
check_network_status(nw_stat_response) ==
    IF nw_stat_response.ok
    THEN join(<<" ">>,
              SelectSeq(splitlines(nw_stat_response.text),
                        LAMBDA line : \/ startswith(line, <<"+","C","E","R","E","G",":">>)
                                      \/ startswith(line, <<"+","C","R","E","G",":">>)
                                      \/ startswith(line, <<"+","C","O","P","S",":">>)))
    ELSE <<>>

\* variant: a line is kept when the RF-status prefix occurs anywhere in it
check_rf_status_anywhere(rf_status_responses) ==
    IF rf_status_responses.ok
    THEN join(<<" ">>,
              SelectSeq(splitlines(rf_status_responses.text),
                        LAMBDA line : In(<<"#","R","F","S","T","S",":">>, line)))
    ELSE <<>>

check_rf_status(rf_status_responses) ==
    IF rf_status_responses.ok
    THEN join(<<" ">>,
              SelectSeq(splitlines(rf_status_responses.text),
                        LAMBDA line : startswith(line, <<"#","R","F","S","T","S",":">>)))
    ELSE <<>>

\* what time.strftime("%Y-%m-%d %H:%M:%S") may return
Clock == {<<"2","0","2","4","-","0","9","-","1","6"," ","1","3",":","2","3",":","5","8">>}

\* variant: the TCP-probe summary is written in front of the RF status
telemetry_record_tcp_first(timestamp, rf, tcp, nw_eps, nw) ==
    timestamp \o <<":">> \o tcp \o <<":">> \o rf \o <<":">> \o nw_eps \o <<":">> \o nw \o <<"\n">>

\* line 322: the telemetry record
telemetry_record(timestamp, rf, tcp, nw_eps, nw) ==
    timestamp \o <<":">> \o rf \o <<":">> \o tcp \o <<":">> \o nw_eps \o <<":">> \o nw \o <<"\n">>

(***************************************************************************)
(* read_and_log_modem_data, the rest of one pass of its while True         *)
(* (dynamic_logging.py:313-324).                                           *)
(***************************************************************************)
telemetry_nw_eps ==
    /\ pc = "nw_eps"
    /\ \E raw \in ModemReplies(nw_eps_reg_status) :
          LET r == com_port_read_write(raw)
          IN /\ response' = r
             /\ nw_eps_status' = check_network_status(r)
    /\ sent' = Append(sent, nw_eps_reg_status)
    /\ pc' = "nw"
    /\ diag' = <<>>
    /\ slept' = 0
    /\ UNCHANGED <<mode, max_retries, ser, cmd_i, attempt, config_responses, modem_configured,
                   log, file_opens, message_response, tcp_status, nw_status, rf_status,
                   max_msg_count, loops>>
    /\ unchanged_storage
    /\ unchanged_tasks

\* variant: the legacy query shares its result list with the EPS query
telemetry_nw_shared_field ==
    /\ pc = "nw"
    /\ \E raw \in ModemReplies(nw_reg_status) :
          LET r == com_port_read_write(raw)
          IN /\ response' = r
             /\ nw_status' = check_network_status(r)
             /\ nw_eps_status' = IF r.ok THEN nw_eps_status ELSE <<>>
    /\ sent' = Append(sent, nw_reg_status)
    /\ pc' = "rf"
    /\ diag' = <<>>
    /\ slept' = 0
    /\ UNCHANGED <<mode, max_retries, ser, cmd_i, attempt, config_responses, modem_configured,
                   log, file_opens, message_response, tcp_status, rf_status, max_msg_count,
                   loops>>
    /\ unchanged_storage
    /\ unchanged_tasks

\* variant: a failed legacy query abandons the pass
telemetry_nw_abandons_pass ==
    /\ pc = "nw"
    /\ \E raw \in ModemReplies(nw_reg_status) :
          LET r == com_port_read_write(raw)
          IN /\ response' = r
             /\ nw_status' = check_network_status(r)
             /\ pc' = IF r.ok THEN "rf" ELSE "tcp_connect"
    /\ sent' = Append(sent, nw_reg_status)
    /\ diag' = <<>>
    /\ slept' = 0
    /\ UNCHANGED <<mode, max_retries, ser, cmd_i, attempt, config_responses, modem_configured,
                   log, file_opens, message_response, tcp_status, nw_eps_status, rf_status,
                   max_msg_count, loops>>
    /\ unchanged_storage
    /\ unchanged_tasks

telemetry_nw ==
    /\ pc = "nw"
    /\ \E raw \in ModemReplies(nw_reg_status) :
          LET r == com_port_read_write(raw)
          IN /\ response' = r
             /\ nw_status' = check_network_status(r)
    /\ sent' = Append(sent, nw_reg_status)
    /\ pc' = "rf"
    /\ diag' = <<>>
    /\ slept' = 0
    /\ UNCHANGED <<mode, max_retries, ser, cmd_i, attempt, config_responses, modem_configured,
                   log, file_opens, message_response, tcp_status, nw_eps_status, rf_status,
                   max_msg_count, loops>>
    /\ unchanged_storage
    /\ unchanged_tasks

telemetry_rf ==
    /\ pc = "rf"
    /\ \E raw \in ModemReplies(rf_status_command), timestamp \in Clock :
          LET r == com_port_read_write(raw)
          IN /\ response' = r
             /\ rf_status' = check_rf_status(r)
             /\ modem_write(telemetry_record(timestamp, check_rf_status(r), tcp_status,
                                             nw_eps_status, nw_status))
    /\ sent' = Append(sent, rf_status_command)
    /\ pc' = "tcp_connect"
    /\ loops' = loops + 1
    /\ diag' = <<>>
    /\ slept' = 0
    /\ UNCHANGED <<mode, max_retries, ser, cmd_i, attempt, config_responses, modem_configured,
                   file_opens, message_response, tcp_status, nw_eps_status, nw_status,
                   max_msg_count>>
    /\ unchanged_tasks

(***************************************************************************)
(* pump_modem_data_with_flight_mode, its while True                        *)
(* (dynamic_logging.py:263-287), and pump_data_to_server (159-173).        *)
(***************************************************************************)
PumpingMarker ==
  <<"'","#","P","u","m","p","i","n","g"," ","D","a","t","a"," ","T","o"," ","S","e","r","v","e","r",
  ".",".",".","'">>

FlightMarker ==
  <<"'","#","F","l","i","g","h","t"," ","M","o","d","e"," ","A","c","t","i","v","e",".",".",".",
  "'">>

\* lines 276 and 284: an event line
event_line(timestamp, marker) == timestamp \o <<":">> \o marker \o <<"\n">>

\* the number of messages of the flight cycle's pump burst
PumpBurst == 5

\* line 268: the command is handled as the enable command
is_enable(command) == In(<<"1">>, CommandChars[command])

\* variant: the disable branch tests for the wrong digit
is_disable_wrong_digit(command) == ~is_enable(command) /\ In(<<"0">>, CommandChars[command])

\* line 282: the command is handled as the disable command
is_disable(command) == ~is_enable(command) /\ In(<<"4">>, CommandChars[command])

\* variant: no while True around the for loop: the function returns after one cycle
NextPhase_single_cycle ==
    /\ pc' = IF cmd_i = Len(flight_mode_commands) THEN "ended" ELSE "toggle"
    /\ slept' = 10
    /\ cmd_i' = IF cmd_i = Len(flight_mode_commands) THEN 1 ELSE cmd_i + 1
    /\ loops' = IF cmd_i = Len(flight_mode_commands) THEN loops + 1 ELSE loops

\* the for loop over phone_mode_commands moves on, after the dwell delay of line 287
NextPhase ==
    /\ pc' = "toggle"
    /\ slept' = 10
    /\ cmd_i' = IF cmd_i = Len(flight_mode_commands) THEN 1 ELSE cmd_i + 1
    /\ loops' = IF cmd_i = Len(flight_mode_commands) THEN loops + 1 ELSE loops

\* variant: the flight-mode marker is written only when the disable command was acknowledged
flight_toggle_marker_when_acknowledged ==
    /\ pc = "toggle"
    /\ loops < MaxCycles
    /\ \E raw \in ModemReplies(flight_mode_commands[cmd_i]) :
          LET r == com_port_read_write(raw)
          IN /\ response' = r
             /\ IF is_enable(flight_mode_commands[cmd_i])
                THEN /\ pc' = "recheck"
                     /\ slept' = 10
                     /\ UNCHANGED <<cmd_i, loops, log, flushed, durable>>
                ELSE /\ NextPhase
                     /\ IF is_disable(flight_mode_commands[cmd_i]) /\ r.ok
                           /\ In(<<"O","K">>, r.text)
                        THEN \E timestamp \in Clock :
                                modem_write(event_line(timestamp, FlightMarker))
                        ELSE UNCHANGED <<log, flushed, durable>>
    /\ sent' = Append(sent, flight_mode_commands[cmd_i])
    /\ diag' = <<"pump_modem_data_with_flight_mode: mode set to">>
    /\ UNCHANGED <<mode, max_retries, ser, attempt, config_responses, modem_configured,
                   file_opens, max_msg_count>>
    /\ unchanged_telemetry
    /\ unchanged_tasks

flight_toggle ==
    /\ pc = "toggle"
    /\ loops < MaxCycles
    /\ \E raw \in ModemReplies(flight_mode_commands[cmd_i]) :
          response' = com_port_read_write(raw)
    /\ sent' = Append(sent, flight_mode_commands[cmd_i])
    /\ diag' = <<"pump_modem_data_with_flight_mode: mode set to">>
    /\ IF is_enable(flight_mode_commands[cmd_i])
       THEN /\ pc' = "recheck"
            /\ slept' = 10
            /\ UNCHANGED <<cmd_i, loops, log, flushed, durable>>
       ELSE /\ NextPhase
            /\ IF is_disable(flight_mode_commands[cmd_i])
               THEN \E timestamp \in Clock : modem_write(event_line(timestamp, FlightMarker))
               ELSE UNCHANGED <<log, flushed, durable>>
    /\ UNCHANGED <<mode, max_retries, ser, attempt, config_responses, modem_configured,
                   file_opens, max_msg_count>>
    /\ unchanged_telemetry
    /\ unchanged_tasks

flight_recheck ==
    /\ pc = "recheck"
    /\ \E raw \in ModemReplies(cops_check_command) :
          LET r == com_port_read_write(raw)
          IN /\ response' = r
             /\ IF lte_registered(r)
                THEN /\ \E timestamp \in Clock :
                          modem_write(event_line(timestamp, PumpingMarker))
                     /\ diag' = <<"pump_modem_data_with_flight_mode: Confirming nw is attached to modem",
                                  "Start time of pump modem data">>
                     /\ pc' = "pump_context"
                     /\ slept' = 0
                     /\ max_msg_count' = PumpBurst
                     /\ UNCHANGED <<cmd_i, loops>>
                ELSE /\ diag' = <<"pump_modem_data_with_flight_mode: Confirming nw is attached to modem">>
                     /\ NextPhase
                     /\ UNCHANGED <<log, flushed, durable, max_msg_count>>
    /\ sent' = Append(sent, cops_check_command)
    /\ UNCHANGED <<mode, max_retries, ser, attempt, config_responses, modem_configured,
                   file_opens>>
    /\ unchanged_telemetry
    /\ unchanged_tasks

pump_context ==
    /\ pc = "pump_context"
    /\ \E raw \in ModemReplies("AT#SGACT=1,1") : response' = com_port_read_write(raw)
    /\ sent' = Append(sent, "AT#SGACT=1,1")
    /\ diag' = <<"pump_data_to_server: context_response">>
    /\ pc' = "pump_socket"
    /\ slept' = 0
    /\ UNCHANGED <<mode, max_retries, ser, cmd_i, attempt, config_responses, modem_configured,
                   log, file_opens, max_msg_count, loops>>
    /\ unchanged_telemetry
    /\ unchanged_storage
    /\ unchanged_tasks

pump_socket ==
    /\ pc = "pump_socket"
    /\ \E raw \in ModemReplies("AT#SD=1,0,7,\"echo.u-blox.com\",0,0,1") :
          response' = com_port_read_write(raw)
    /\ sent' = Append(sent, "AT#SD=1,0,7,\"echo.u-blox.com\",0,0,1")
    /\ diag' = <<"pump_data_to_server: server_response">>
    /\ pc' = IF max_msg_count # 0 THEN "pump_ssend" ELSE "pump_shutdown"
    /\ slept' = 0
    /\ UNCHANGED <<mode, max_retries, ser, cmd_i, attempt, config_responses, modem_configured,
                   log, file_opens, max_msg_count, loops>>
    /\ unchanged_telemetry
    /\ unchanged_storage
    /\ unchanged_tasks

pump_ssend ==
    /\ pc = "pump_ssend"
    /\ \E raw \in ModemReplies("AT#SSEND=1") : response' = com_port_read_write(raw)
    /\ sent' = Append(sent, "AT#SSEND=1")
    /\ diag' = <<"pump_data_to_server: send_response">>
    /\ pc' = "pump_payload"
    /\ slept' = 0
    /\ UNCHANGED <<mode, max_retries, ser, cmd_i, attempt, config_responses, modem_configured,
                   log, file_opens, max_msg_count, loops>>
    /\ unchanged_telemetry
    /\ unchanged_storage
    /\ unchanged_tasks

\* line 169: the burst stops after this payload
pump_break(msg_response) == msg_response.ok /\ ~In(<<"O","K">>, msg_response.text)

\* variant: a payload that is not acknowledged ends the function, without the shutdown
pump_payload_returns_on_break ==
    /\ pc = "pump_payload"
    /\ \E raw \in ModemReplies(pump_dummy_msg) :
          LET r == com_port_read_write(raw)
          IN /\ response' = r
             /\ IF pump_break(r)
                THEN /\ NextPhase
                     /\ UNCHANGED max_msg_count
                ELSE /\ max_msg_count' = max_msg_count - 1
                     /\ pc' = IF max_msg_count - 1 # 0 THEN "pump_ssend" ELSE "pump_shutdown"
                     /\ slept' = 0
                     /\ UNCHANGED <<cmd_i, loops>>
    /\ sent' = Append(sent, pump_dummy_msg)
    /\ diag' = <<"pump_data_to_server: msg_response">>
    /\ UNCHANGED <<mode, max_retries, ser, attempt, config_responses, modem_configured,
                   log, file_opens>>
    /\ unchanged_telemetry
    /\ unchanged_storage
    /\ unchanged_tasks

pump_payload ==
    /\ pc = "pump_payload"
    /\ \E raw \in ModemReplies(pump_dummy_msg) :
          LET r == com_port_read_write(raw)
          IN /\ response' = r
             /\ IF pump_break(r)
                THEN /\ pc' = "pump_shutdown"
                     /\ UNCHANGED max_msg_count
                ELSE /\ max_msg_count' = max_msg_count - 1
                     /\ pc' = IF max_msg_count - 1 # 0 THEN "pump_ssend" ELSE "pump_shutdown"
    /\ sent' = Append(sent, pump_dummy_msg)
    /\ diag' = <<"pump_data_to_server: msg_response">>
    /\ slept' = 0
    /\ UNCHANGED <<mode, max_retries, ser, cmd_i, attempt, config_responses, modem_configured,
                   log, file_opens, loops>>
    /\ unchanged_telemetry
    /\ unchanged_storage
    /\ unchanged_tasks

pump_shutdown ==
    /\ pc = "pump_shutdown"
    /\ \E raw \in ModemReplies("AT#SH=1") : response' = com_port_read_write(raw)
    /\ sent' = Append(sent, "AT#SH=1")
    /\ diag' = <<"pump_data_to_server: shutdown socket connection", "End time of pump modem data">>
    /\ NextPhase
    /\ UNCHANGED <<mode, max_retries, ser, attempt, config_responses, modem_configured,
                   log, file_opens, max_msg_count>>
    /\ unchanged_telemetry
    /\ unchanged_storage
    /\ unchanged_tasks

(***************************************************************************)
(* The modem session.                                                      *)
(***************************************************************************)
Next ==
    \/ start_serial_connection
    \/ configure_sim_module_cfg
    \/ configure_sim_module_cops
    \/ signal_query
    \/ tcp_connect
    \/ tcp_send
    \/ tcp_recv
    \/ tcp_sock
    \/ telemetry_nw_eps
    \/ telemetry_nw
    \/ telemetry_rf
    \/ flight_toggle
    \/ flight_recheck
    \/ pump_context
    \/ pump_socket
    \/ pump_ssend
    \/ pump_payload
    \/ pump_shutdown

Spec == Init /\ [][Next]_vars

\* every exchange and every delay returns: a session that can take a step takes one
FairSpec == Spec /\ WF_vars(Next)

(***************************************************************************)
(* The GNSS task: start_gnss_thread and read_and_log_gnss_data             *)
(* (dynamic_logging.py:329-355).  It runs in a worker thread of the        *)
(* executor.                                                               *)
(***************************************************************************)
\* the ports of the two tasks (lines 392-393, 407-408)
gnss_port == "COM4"

modem_port == "COM8"

\* lines 98-103: the path of a new log file
create_log_file(base_name, timestamp) == <<"output", base_name, "_", timestamp, ".log">>

\* what str(ubx_data) may be for a frame the reader decoded
UbxFrames == {<<"<","U","B","X","(","N","A","V","-","P","V","T",")",">">>}

\* line 341: the GNSS record
gnss_record(timestamp, ubx_data) == timestamp \o <<":">> \o ubx_data \o <<"\n">>

\* variant: the GNSS thread is held while the modem session is in a delay
gnss_scheduled_between_delays == futures["gnss"] = "running" /\ slept = 0

\* the thread of the GNSS task runs: a worker of the executor, or the main thread in a
\* direct call
gnss_scheduled == futures["gnss"] = "running"

unchanged_modem ==
    /\ UNCHANGED <<mode, max_retries, ser, pc, cmd_i, attempt, config_responses,
                   modem_configured, response, sent, slept, diag, log, file_opens,
                   message_response, tcp_status, nw_eps_status, nw_status, rf_status,
                   max_msg_count, loops, flushed, durable>>
    /\ UNCHANGED <<SELECT_LOGGING, call, port_in, port_ops>>

\* the function of a task returns, or raises: its worker thread resolves the future
task_ends(task, outcome) == futures' = [futures EXCEPT ![task] = outcome]

\* lines 348-355; with the port open, line 331-332 create and open the log file
start_gnss_thread ==
    /\ gnss_scheduled
    /\ gnss_pc = "start"
    /\ \E opened \in BOOLEAN :
          IF opened
          THEN gnss_ser' = "open" /\ gnss_pc' = "read" /\ UNCHANGED futures
          ELSE gnss_ser' = "None" /\ gnss_pc' = "ended" /\ task_ends("gnss", "finished")
    /\ UNCHANGED <<gnss_log, gnss_flushed, gnss_durable, main_pc>>
    /\ unchanged_modem

\* lines 336-343: the reader delivers a frame, which is logged, or the port read raises
read_and_log_gnss_data ==
    /\ gnss_scheduled
    /\ gnss_pc = "read"
    /\ \/ /\ Len(gnss_log) < MaxFrames
          /\ \E timestamp \in Clock, ubx_data \in UbxFrames :
                LET f == write_record(LogFile(gnss_log, gnss_flushed, gnss_durable),
                                      gnss_record(timestamp, ubx_data))
                IN /\ gnss_log' = f.lines
                   /\ gnss_flushed' = f.flushed
                   /\ gnss_durable' = f.durable
          /\ UNCHANGED <<gnss_pc, futures>>
       \/ /\ gnss_pc' = "failed"
          /\ task_ends("gnss", "failed")
          /\ UNCHANGED <<gnss_log, gnss_flushed, gnss_durable>>
    /\ UNCHANGED <<gnss_ser, main_pc>>
    /\ unchanged_modem

(***************************************************************************)
(* run_io_tasks_in_parallel (dynamic_logging.py:380-384) and the worker    *)
(* threads of its ThreadPoolExecutor.                                      *)
(***************************************************************************)
\* the tasks in the order they are given (lines 391-394, 406-409)
TaskOrder == <<"gnss", "modem">>

\* a future is done: its task has returned or raised
done(task) == futures[task] \in {"finished", "failed"}

\* line 382: executor.submit starts the next task in a worker thread
executor_submit ==
    /\ main_pc.at = "submit"
    /\ futures' = [futures EXCEPT ![TaskOrder[main_pc.i]] = "running"]
    /\ main_pc' = IF main_pc.i = Len(TaskOrder) THEN [at |-> "result", i |-> 1, exc |-> FALSE]
                  ELSE [main_pc EXCEPT !.i = @ + 1]
    /\ UNCHANGED <<gnss_ser, gnss_pc, gnss_log, gnss_flushed, gnss_durable>>
    /\ unchanged_modem

\* lines 358-377: the modem session function has returned, and so does the task
modem_thread_returns ==
    /\ futures["modem"] = "running"
    /\ pc = "ended"
    /\ task_ends("modem", "finished")
    /\ UNCHANGED <<gnss_ser, gnss_pc, gnss_log, gnss_flushed, gnss_durable, main_pc>>
    /\ unchanged_modem

\* lines 383-384: running_task.result() returns when the task is done, or raises its exception
future_result ==
    /\ main_pc.at = "result"
    /\ done(TaskOrder[main_pc.i])
    /\ main_pc' = IF futures[TaskOrder[main_pc.i]] = "failed"
                  THEN [at |-> "exit", i |-> main_pc.i, exc |-> TRUE]
                  ELSE IF main_pc.i = Len(TaskOrder)
                  THEN [at |-> "exit", i |-> main_pc.i, exc |-> FALSE]
                  ELSE [main_pc EXCEPT !.i = @ + 1]
    /\ UNCHANGED <<gnss_ser, gnss_pc, gnss_log, gnss_flushed, gnss_durable, futures>>
    /\ unchanged_modem

\* variant: the executor is shut down without waiting for its workers
shutdown_complete_no_wait == TRUE

\* the executor's shutdown(wait=True) has joined every worker thread
shutdown_complete == \A task \in Tasks : done(task)

\* line 381: leaving the with block shuts the executor down; then the function returns, or
\* the exception of the failed task goes on
executor_exit ==
    /\ main_pc.at = "exit"
    /\ shutdown_complete
    /\ main_pc' = [main_pc EXCEPT !.at = IF main_pc.exc THEN "raised" ELSE "returned"]
    /\ UNCHANGED <<gnss_ser, gnss_pc, gnss_log, gnss_flushed, gnss_durable, futures>>
    /\ unchanged_modem

\* the thread of the modem task runs the modem session: a worker of the executor, or the
\* main thread in a direct call
modem_scheduled == futures["modem"] = "running"

(***************************************************************************)
(* The process with both tasks (SELECT_LOGGING = 1 or 4).                  *)
(***************************************************************************)
ParallelInit ==
    /\ mode \in {"TELEMETRY", "FLIGHT"}
    /\ max_retries = 1
    /\ ser = "unopened"
    /\ pc = "start"
    /\ cmd_i = 1
    /\ attempt = 0
    /\ config_responses = <<>>
    /\ modem_configured = "unset"
    /\ response = None
    /\ sent = <<>>
    /\ slept = 0
    /\ diag = <<>>
    /\ log = <<>>
    /\ file_opens = 0
    /\ message_response = <<>>
    /\ tcp_status = <<>>
    /\ nw_eps_status = <<>>
    /\ nw_status = <<>>
    /\ rf_status = <<>>
    /\ max_msg_count = 0
    /\ loops = 0
    /\ flushed = 0
    /\ durable = 0
    /\ gnss_ser = "unopened"
    /\ gnss_pc = "start"
    /\ gnss_log = <<>>
    /\ gnss_flushed = 0
    /\ gnss_durable = 0
    /\ main_pc = [at |-> "submit", i |-> 1, exc |-> FALSE]
    /\ futures = [task \in Tasks |-> "unsubmitted"]
    /\ SELECT_LOGGING = (IF mode = "TELEMETRY" THEN 1 ELSE 4)
    /\ call = NoCall
    /\ port_in = <<>>
    /\ port_ops = <<>>

ParallelNext ==
    \/ executor_submit
    \/ start_gnss_thread
    \/ read_and_log_gnss_data
    \/ modem_scheduled /\ Next
    \/ modem_thread_returns
    \/ future_result
    \/ executor_exit

ParallelSpec == ParallelInit /\ [][ParallelNext]_vars

(***************************************************************************)
(* The main program (dynamic_logging.py:387-411): the match statement over *)
(* SELECT_LOGGING, and the session functions it calls itself.              *)
(***************************************************************************)
\* the values of SELECT_LOGGING: the four the match statement names, and two others
Selectors == 0..5

\* variant: a value the match statement does not name is handled as case 1
selected_default_both(select) ==
    CASE select = 2 -> [tasks |-> <<"gnss">>, session |-> "unset", parallel |-> FALSE]
      [] select = 3 -> [tasks |-> <<"modem">>, session |-> "TELEMETRY", parallel |-> FALSE]
      [] select = 4 -> [tasks |-> <<"gnss", "modem">>, session |-> "FLIGHT", parallel |-> TRUE]
      [] OTHER -> [tasks |-> <<"gnss", "modem">>, session |-> "TELEMETRY", parallel |-> TRUE]

\* lines 388-411: what a case of the match statement runs: the tasks, the session function
\* of the modem task, and whether they go through run_io_tasks_in_parallel
selected(select) ==
    CASE select = 1 -> [tasks |-> <<"gnss", "modem">>, session |-> "TELEMETRY", parallel |-> TRUE]
      [] select = 2 -> [tasks |-> <<"gnss">>, session |-> "unset", parallel |-> FALSE]
      [] select = 3 -> [tasks |-> <<"modem">>, session |-> "TELEMETRY", parallel |-> FALSE]
      [] select = 4 -> [tasks |-> <<"gnss", "modem">>, session |-> "FLIGHT", parallel |-> TRUE]
      [] OTHER -> [tasks |-> <<>>, session |-> "unset", parallel |-> FALSE]

\* the position of a task in TaskOrder
TaskIndex(task) == CHOOSE i \in 1..Len(TaskOrder) : TaskOrder[i] = task

\* line 388: the match statement takes its case; a task called directly runs at once, in
\* the main thread
main_match ==
    /\ main_pc.at = "match"
    /\ LET case == selected(SELECT_LOGGING)
       IN /\ mode' = case.session
          /\ IF case.parallel
             THEN /\ main_pc' = [at |-> "submit", i |-> 1, exc |-> FALSE]
                  /\ UNCHANGED futures
             ELSE IF case.tasks # <<>>
             THEN /\ main_pc' = [at |-> "direct", i |-> TaskIndex(case.tasks[1]), exc |-> FALSE]
                  /\ futures' = [futures EXCEPT ![case.tasks[1]] = "running"]
             ELSE /\ main_pc' = [at |-> "returned", i |-> 0, exc |-> FALSE]
                  /\ UNCHANGED futures
    /\ UNCHANGED <<max_retries, ser, pc, cmd_i, attempt, config_responses, modem_configured,
                   response, sent, slept, diag, log, file_opens, message_response, tcp_status,
                   nw_eps_status, nw_status, rf_status, max_msg_count, loops, flushed, durable>>
    /\ UNCHANGED <<gnss_ser, gnss_pc, gnss_log, gnss_flushed, gnss_durable>>
    /\ UNCHANGED <<SELECT_LOGGING, call, port_in, port_ops>>

\* lines 398 and 402: the function called directly has returned, or raised
direct_return ==
    /\ main_pc.at = "direct"
    /\ main_pc.i > 0
    /\ done(TaskOrder[main_pc.i])
    /\ main_pc' = [main_pc EXCEPT !.at = IF futures[TaskOrder[main_pc.i]] = "failed"
                                        THEN "raised" ELSE "returned",
                                  !.exc = futures[TaskOrder[main_pc.i]] = "failed"]
    /\ UNCHANGED <<gnss_ser, gnss_pc, gnss_log, gnss_flushed, gnss_durable, futures>>
    /\ unchanged_modem

MainInit ==
    /\ mode = "unset"
    /\ max_retries = 1
    /\ ser = "unopened"
    /\ pc = "start"
    /\ cmd_i = 1
    /\ attempt = 0
    /\ config_responses = <<>>
    /\ modem_configured = "unset"
    /\ response = None
    /\ sent = <<>>
    /\ slept = 0
    /\ diag = <<>>
    /\ log = <<>>
    /\ file_opens = 0
    /\ message_response = <<>>
    /\ tcp_status = <<>>
    /\ nw_eps_status = <<>>
    /\ nw_status = <<>>
    /\ rf_status = <<>>
    /\ max_msg_count = 0
    /\ loops = 0
    /\ flushed = 0
    /\ durable = 0
    /\ gnss_ser = "unopened"
    /\ gnss_pc = "start"
    /\ gnss_log = <<>>
    /\ gnss_flushed = 0
    /\ gnss_durable = 0
    /\ main_pc = [at |-> "match", i |-> 0, exc |-> FALSE]
    /\ futures = [task \in Tasks |-> "unsubmitted"]
    /\ SELECT_LOGGING \in Selectors
    /\ call = NoCall
    /\ port_in = <<>>
    /\ port_ops = <<>>

MainNext ==
    \/ main_match
    \/ direct_return
    \/ executor_submit
    \/ start_gnss_thread
    \/ read_and_log_gnss_data
    \/ modem_scheduled /\ Next
    \/ modem_thread_returns
    \/ future_result
    \/ executor_exit

MainSpec == MainInit /\ [][MainNext]_vars

(***************************************************************************)
(* calculate_signal_quality (dynamic_parser.py:194-245).  RSRP and RSSI    *)
(* are whole numbers; RSRQ, SINR and the result are counted in tenths, so  *)
(* that the thresholds -5, 7, 10 and 12.5 are -50, 70, 100 and 125.        *)
(***************************************************************************)
\* variant: the second RSRP threshold is -100
rsrp_quality_at_100(rsrp) ==
    IF rsrp >= -84 THEN 40 ELSE IF rsrp >= -100 THEN 30 ELSE IF rsrp >= -111 THEN 20 ELSE 10

\* lines 208-215
rsrp_quality(rsrp) ==
    IF rsrp >= -84 THEN 40 ELSE IF rsrp >= -102 THEN 30 ELSE IF rsrp >= -111 THEN 20 ELSE 10

\* lines 217-224
rssi_quality(rssi) ==
    IF rssi >= -65 THEN 40 ELSE IF rssi >= -75 THEN 30 ELSE IF rssi >= -85 THEN 20 ELSE 10

\* lines 226-231: the second test reads rssi
rsrq_quality(rsrq, rssi) ==
    IF rsrq >= -50 THEN 40 ELSE IF rssi >= -6 THEN 30 ELSE 10

\* lines 233-240
sinr_quality(sinr) ==
    IF sinr >= 125 THEN 40 ELSE IF sinr >= 100 THEN 30 ELSE IF sinr >= 70 THEN 20 ELSE 10

\* line 243: the mean of the four components, in tenths
calculate_signal_quality(rsrp, rssi, rsrq, sinr) ==
    ((rsrp_quality(rsrp) + rssi_quality(rssi) + rsrq_quality(rsrq, rssi) + sinr_quality(sinr))
        * 10) \div 4

(***************************************************************************)
(* One call of com_port_read_write seen at the serial port                 *)
(* (dynamic_logging.py:116-127), and functions called on their own.        *)
(***************************************************************************)
MaxExchanges == 2    \* calls of com_port_read_write explored on one port

\* everything of the running process, which a function called on its own leaves alone
unchanged_process ==
    UNCHANGED <<mode, max_retries, ser, pc, cmd_i, attempt, config_responses, modem_configured,
                response, sent, slept, diag, log, file_opens, message_response, tcp_status,
                nw_eps_status, nw_status, rf_status, max_msg_count, loops, flushed, durable,
                gnss_ser, gnss_pc, gnss_log, gnss_flushed, gnss_durable, main_pc, futures,
                SELECT_LOGGING>>

\* what may go wrong in one call: nothing (""), a SerialException raised by flush, by write
\* or by readall, or received bytes that decode() rejects
PortFaults == {"", "flush", "write", "readall", "decode"}

\* what the modem may put on the wire around one call
PortReplies == {<<>>, OK_BYTES, ERROR_BYTES}

\* line 120: f"{command}\r\n".encode()
encode_command(command) == CommandChars[command] \o <<"\r", "\n">>

\* variant: the exchange is performed a second time after a serial error
port_operations_retry(command, fault) ==
    LET ops == << <<"flush">>, <<"write", encode_command(command)>>,
                  <<"timeout", 3>>, <<"readall">> >>
    IN CASE fault = "flush" -> SubSeq(ops, 1, 1) \o ops
         [] fault = "write" -> SubSeq(ops, 1, 2) \o ops
         [] fault = "readall" -> ops \o ops
         [] OTHER -> ops

\* lines 119-122: the operations of one call on the port, up to the one that raises
port_operations(command, fault) ==
    LET ops == << <<"flush">>, <<"write", encode_command(command)>>,
                  <<"timeout", 3>>, <<"readall">> >>
    IN CASE fault = "flush" -> SubSeq(ops, 1, 1)
         [] fault = "write" -> SubSeq(ops, 1, 2)
         [] OTHER -> ops

\* line 119: Serial.flush() waits until the output buffer is written; the bytes waiting in
\* the input buffer stay where they are
port_flush(pending) == pending

\* line 122: readall() returns the waiting bytes and those that arrive before the timeout
port_readall(pending, arrive) == pending \o arrive

\* lines 118-127: the raw outcome of one call
port_outcome(pending, arrive, fault) ==
    CASE fault \in {"flush", "write", "readall"} -> SerialError
      [] fault = "decode" -> DecodeError
      [] OTHER -> Bytes(port_readall(port_flush(pending), arrive))

\* the port is ready for its first exchange
PortIdle == [fn |-> "com_port_read_write", args |-> "", ret |-> None, n |-> 0,
             fault |-> "", arrived |-> <<>>, read |-> <<>>]

\* lines 116-127: one exchange.  `arrive` is what the modem sends between the write and the
\* timeout, `late` what it sends after the read has returned
com_port_read_write_call ==
    /\ call.fn = "com_port_read_write"
    /\ call.n < MaxExchanges
    /\ \E command \in DOMAIN CommandChars, fault \in PortFaults,
          arrive \in PortReplies, late \in PortReplies :
          /\ fault # "" => arrive = <<>>
          /\ fault \in {"flush", "write"} => late = <<>>
          /\ port_ops' = port_operations(command, fault)
          /\ call' = [fn |-> "com_port_read_write", args |-> command,
                      ret |-> com_port_read_write(port_outcome(port_in, arrive, fault)),
                      n |-> call.n + 1, fault |-> fault, arrived |-> arrive,
                      read |-> IF fault = "" THEN port_readall(port_flush(port_in), arrive)
                               ELSE <<>>]
          /\ port_in' = IF fault \in {"flush", "write", "readall"} THEN port_in \o late
                        ELSE late
    /\ unchanged_process

MaxLines == 2        \* lines of a response given to the status filters

\* lines a response to a status query may hold
StatusLines ==
    {<<>>, <<"O","K">>,
     <<"+","C","E","R","E","G",":"," ","0",",","5">>,
     <<"+","C","R","E","G",":"," ","0",",","1">>,
     <<"+","C","O","P","S",":"," ","0">>,
     <<"#","R","F","S","T","S",":"," ","1">>,
     <<" ","+","C","R","E","G",":"," ","0",",","1">>,
     <<" ","#","R","F","S","T","S",":"," ","1">>}

\* the responses given to the status filters, as lists of lines
StatusResponses == UNION {[1..n -> StatusLines] : n \in 0..MaxLines}

\* the calls of the status filters: with a response text, or after a failed exchange
StatusCalls ==
    {[fn |-> f, args |-> Text(join(<<"\r", "\n">>, lines)), ret |-> <<>>, n |-> 0, lines |-> lines] :
        f \in {"check_network_status", "check_rf_status"}, lines \in StatusResponses}
    \cup {[fn |-> f, args |-> None, ret |-> <<>>, n |-> 0, lines |-> <<>>] :
             f \in {"check_network_status", "check_rf_status"}}

\* lines 218-244: a status filter is applied to the result of its exchange
check_status_call ==
    /\ call.fn \in {"check_network_status", "check_rf_status"}
    /\ call.n = 0
    /\ call' = [call EXCEPT !.n = 1,
                            !.ret = IF call.fn = "check_network_status"
                                    THEN check_network_status(call.args)
                                    ELSE check_rf_status(call.args)]
    /\ UNCHANGED <<port_in, port_ops>>
    /\ unchanged_process

Margin == 1          \* how far around each threshold the signal values are taken

\* the values within Margin of one of the thresholds
Around(thresholds) == {t + d : t \in thresholds, d \in -Margin..Margin}

\* the signal values given to calculate_signal_quality: those around the thresholds of
\* each component, and the values of a sample RF-status line
RsrpValues == Around({-111, -102, -84}) \cup {-90}

RssiValues == Around({-85, -75, -65, -6}) \cup {-95}

RsrqValues == Around({-50}) \cup {-100}

SinrValues == Around({70, 100, 125})

QualityCalls ==
    {[fn |-> "calculate_signal_quality", args |-> <<rsrp, rssi, rsrq, sinr>>, ret |-> 0, n |-> 0] :
        rsrp \in RsrpValues, rssi \in RssiValues, rsrq \in RsrqValues, sinr \in SinrValues}

\* dynamic_parser.py:194-245: the function is applied to its four arguments
calculate_signal_quality_call ==
    /\ call.fn = "calculate_signal_quality"
    /\ call.n = 0
    /\ call' = [call EXCEPT !.n = 1,
                            !.ret = calculate_signal_quality(call.args[1], call.args[2],
                                                             call.args[3], call.args[4])]
    /\ UNCHANGED <<port_in, port_ops>>
    /\ unchanged_process

\* the functions called on their own, each with the arguments it is given
UnitCalls == {PortIdle} \cup StatusCalls \cup QualityCalls

UnitInit ==
    /\ mode = "TELEMETRY"
    /\ max_retries = 0
    /\ ser = "unopened"
    /\ pc = "start"
    /\ cmd_i = 1
    /\ attempt = 0
    /\ config_responses = <<>>
    /\ modem_configured = "unset"
    /\ response = None
    /\ sent = <<>>
    /\ slept = 0
    /\ diag = <<>>
    /\ log = <<>>
    /\ file_opens = 0
    /\ message_response = <<>>
    /\ tcp_status = <<>>
    /\ nw_eps_status = <<>>
    /\ nw_status = <<>>
    /\ rf_status = <<>>
    /\ max_msg_count = 0
    /\ loops = 0
    /\ flushed = 0
    /\ durable = 0
    /\ gnss_ser = "unopened"
    /\ gnss_pc = "start"
    /\ gnss_log = <<>>
    /\ gnss_flushed = 0
    /\ gnss_durable = 0
    /\ main_pc = [at |-> "direct", i |-> 0, exc |-> FALSE]
    /\ futures = [task \in Tasks |-> "unsubmitted"]
    /\ SELECT_LOGGING = 3
    /\ call \in UnitCalls
    /\ port_in = <<>>
    /\ port_ops = <<>>

UnitNext ==
    \/ com_port_read_write_call
    \/ check_status_call
    \/ calculate_signal_quality_call

UnitSpec == UnitInit /\ [][UnitNext]_vars

(***************************************************************************)
(* The reader of the logs (dynamic_parser.py).                             *)
(***************************************************************************)
\* s.split(sep), sep being one character: the texts between the separators
split(s, sep) ==
    LET at == {k \in 1..Len(s) : s[k] = sep}
        \* the position of the n-th separator; the ends of s stand for number 0 and the last
        pos(n) == IF n = 0 THEN 0
                  ELSE IF n > Cardinality(at) THEN Len(s) + 1
                  ELSE CHOOSE k \in at : Cardinality({j \in at : j <= k}) = n
    IN [n \in 1..(Cardinality(at) + 1) |-> SubSeq(s, pos(n - 1) + 1, pos(n) - 1)]

\* s[:-1]
drop_last(s) == SubSeq(s, 1, Len(s) - 1)

\* the value of a field the line does not have
NoField == <<"None">>

\* parse_line (dynamic_parser.py:371-391)
parse_line(line) ==
    LET parts == split(line, "#")
        parts1 == split(line, "+")
        part(p, k) == IF Len(p) >= k THEN p[k] ELSE NoField
    IN [timestamp |-> drop_last(parts[1]),
        rfsts_data |-> part(parts, 2),
        server_data |-> part(parts, 3),
        sock_info_data |-> part(parts, 4),
        sock_status_data |-> part(parts, 5),
        nw_eps_data |-> part(parts1, 2),
        nw_data |-> part(parts1, 3)]

\* parse_gnss_log (dynamic_parser.py:265-266): the timestamp of a GNSS record, which has
\* a frame beginning with "<"
parse_gnss_timestamp(line) == drop_last(split(line, "<")[1])

(***************************************************************************)
(* Vocabulary of the properties.                                           *)
(***************************************************************************)
Range(seq) == {seq[k] : k \in 1..Len(seq)}

Min(a, b) == IF a <= b THEN a ELSE b

\* the first n elements of seq, or all of it when it is shorter
Prefix(seq, n) == SubSeq(seq, 1, Min(n, Len(seq)))

Count(x, seq) == Cardinality({k \in 1..Len(seq) : seq[k] = x})

\* the command of the most recent exchange
LastSent == IF sent = <<>> THEN "" ELSE sent[Len(sent)]

\* the commands of the part of the wire history that follows the bootstrap
AfterBootstrap ==
    SubSeq(sent, Min(Len(cfg_commands) + attempt, Len(sent)) + 1, Len(sent))

\* commands that only the operating part of a session sends
OperatingCommands ==
    Range(signal_commands) \cup Range(tcp_connect_commands) \cup Range(message_to_server)
    \cup Range(socket_commands) \cup Range(flight_mode_commands)
    \cup {message_from_server, nw_eps_reg_status, nw_reg_status, rf_status_command,
          "AT#SH=1", pump_dummy_msg}

\* the most recent exchange was a configuration command answered by a text without OK
ConfigurationRejected ==
    /\ LastSent \in Range(cfg_commands)
    /\ response.ok
    /\ ~In(<<"O","K">>, response.text)

(***************************************************************************)
(* C1: when the response text of a configuration command lacks "OK",       *)
(* configure_sim_module returns False and the session sends nothing more:  *)
(* the rejected command is the last thing on the wire, no poll was made    *)
(* and no step remains.                                                    *)
(***************************************************************************)
C1_RejectedConfigurationStops ==
    ConfigurationRejected =>
        /\ modem_configured = "False"
        /\ pc = "ended"
        /\ ~(cops_check_command \in Range(sent))
        /\ sent = Prefix(cfg_commands, Len(sent))
        /\ ~ENABLED Next

\* an empty answer to the third configuration command, after two accepted ones
C1_Witness ==
    /\ ConfigurationRejected
    /\ response.text = <<>>
    /\ Len(sent) = 3
    /\ pc = "ended"

(***************************************************************************)
(* C2: the registration phase makes at most max_retries polls, every poll  *)
(* consumes one attempt whatever its result, the first poll whose response *)
(* contains the attachment indicator ends the phase with success, and the  *)
(* phase ends in failure when the attempts are used up (at once when       *)
(* max_retries = 0).                                                       *)
(***************************************************************************)
\* the AT+COPS? polls on the wire that belong to the registration phase
RegistrationPolls ==
    Count(cops_check_command, Prefix(sent, Len(cfg_commands) + attempt))

\* the most recent exchange was a registration poll
JustPolled ==
    /\ LastSent = cops_check_command
    /\ Len(sent) = Len(cfg_commands) + attempt

C2_BoundedRegistration ==
    /\ attempt <= max_retries
    /\ RegistrationPolls = attempt
    /\ Len(sent) <= Len(cfg_commands) => Count(cops_check_command, sent) = 0
    /\ (JustPolled /\ response.ok /\ In(<<"8">>, response.text))
          => (modem_configured = "True" /\ pc = "signal")
    /\ (JustPolled /\ ~(response.ok /\ In(<<"8">>, response.text)))
          => IF attempt < max_retries
             THEN pc = "register" /\ modem_configured = "unset"
             ELSE pc = "ended" /\ modem_configured = "None"
    /\ (pc = "register") => attempt < max_retries
    /\ (pc = "register" \/ modem_configured = "None")
          => (Len(sent) = Len(cfg_commands) + attempt /\ Count(cops_check_command, sent) = attempt)
    /\ (max_retries = 0 /\ Len(sent) = Len(cfg_commands) /\ ~ConfigurationRejected)
          => (pc = "ended" /\ modem_configured = "None")
    /\ modem_configured = "True"
          => /\ attempt >= 1
             /\ Len(sent) >= Len(cfg_commands) + attempt
             /\ sent[Len(cfg_commands) + attempt] = cops_check_command

\* the first of two allowed polls succeeds: the phase ends there, one attempt unused
C2_Witness ==
    /\ max_retries = 2
    /\ attempt = 1
    /\ JustPolled
    /\ modem_configured = "True"
    /\ pc = "signal"

(***************************************************************************)
(* C3: nothing of the operating part of a session - signal-quality query,  *)
(* TCP-probe command, status query, flight-mode toggle, pump command, log  *)
(* file or log line - exists before a registration poll has succeeded, and *)
(* a session whose configuration or registration failed has ended without  *)
(* any of it.                                                              *)
(***************************************************************************)
\* the session has done something of its operating part
Operating ==
    \/ Range(sent) \cap OperatingCommands # {}
    \/ log # <<>>
    \/ file_opens > 0
    \/ pc \notin {"start", "configure", "register", "ended"}

C3_NothingBeforeRegistration ==
    /\ Operating => /\ modem_configured = "True"
                    /\ attempt >= 1
                    /\ Len(sent) >= Len(cfg_commands) + attempt
                    /\ sent[Len(cfg_commands) + attempt] = cops_check_command
                    /\ Range(Prefix(sent, Len(cfg_commands) + attempt)) \cap OperatingCommands = {}
    /\ (pc = "signal" /\ cmd_i = 1) => (JustPolled /\ response.ok /\ In(<<"8">>, response.text))
    /\ modem_configured \in {"False", "None"} => (pc = "ended" /\ ~Operating /\ ~ENABLED Next)

\* the first signal-quality query goes out right after the successful poll
C3_Witness ==
    /\ pc = "signal"
    /\ cmd_i = 2
    /\ Len(sent) = Len(cfg_commands) + attempt + 1
    /\ attempt = 2

(***************************************************************************)
(* C4: a registration check succeeds exactly when the status field of the  *)
(* +COPS line, its last field, is 8 - in the registration polling and in   *)
(* the flight cycle's re-check.                                            *)
(***************************************************************************)
\* the index of the last comma of line, 0 if it has none
RECURSIVE LastComma(_, _)
LastComma(line, k) ==
    IF k = 0 THEN 0 ELSE IF line[k] = "," THEN k ELSE LastComma(line, k - 1)

\* the status field of the +COPS line of a response text: what follows its last comma
CopsStatusField(text) ==
    LET cops == SelectSeq(splitlines(text), LAMBDA line : startswith(line, <<"+","C","O","P","S",":">>))
    IN IF cops = <<>> \/ LastComma(cops[1], Len(cops[1])) = 0 THEN <<>>
       ELSE SubSeq(cops[1], LastComma(cops[1], Len(cops[1])) + 1, Len(cops[1]))

\* the response reports attachment to LTE in its status field
ReportsLTE(r) == r.ok /\ CopsStatusField(r.text) = <<"8">>

\* the most recent exchange was the flight cycle's re-check
JustRechecked ==
    /\ LastSent = cops_check_command
    /\ Len(sent) > Len(cfg_commands) + attempt

\* the most recent exchange was a registration check, and the code took it as a success
TakenAsRegistered ==
    \/ JustPolled /\ modem_configured = "True"
    \/ JustRechecked /\ pc = "pump_context"

C4_SuccessIffStatusField8 ==
    (JustPolled \/ JustRechecked) => (TakenAsRegistered <=> ReportsLTE(response))

(***************************************************************************)
(* C5: a transport error on a configuration command (the executor returns  *)
(* None) ends the session: configure_sim_module reports failure and        *)
(* neither a registration poll nor anything of the operating part follows. *)
(***************************************************************************)
\* the most recent exchange was a configuration command answered None
ConfigurationTransportError ==
    /\ LastSent \in Range(cfg_commands)
    /\ ~response.ok

C5_TransportErrorIsFatal ==
    ConfigurationTransportError => (pc = "ended" /\ modem_configured = "False")

(***************************************************************************)
(* C6: every caller of the executor treats the result None as it treats an *)
(* empty response text: from the same state, configuration, registration   *)
(* polling, the pump burst and the TCP probe continue in the same way and  *)
(* log the same.                                                           *)
(***************************************************************************)
C6_NoneTreatedAsEmpty ==
    /\ pc = "configure" => ConfigureNext(None) = ConfigureNext(Text(<<>>))
    /\ pc = "register" => RegisterNext(None) = RegisterNext(Text(<<>>))
    /\ pc = "pump_payload" => pump_break(None) = pump_break(Text(<<>>))
    /\ pc = "tcp_recv" => message_items(None) = message_items(Text(<<>>))

(***************************************************************************)
(* C7: every telemetry pass performs the TCP-probe exchanges, the EPS      *)
(* query, the legacy query and the RF query in this order and then appends *)
(* exactly one record: the wire history of the loop is a prefix of the     *)
(* repeated pass, and the log holds one record per completed pass.         *)
(***************************************************************************)
TelemetryLoop == {"tcp_connect", "tcp_send", "tcp_recv", "tcp_sock", "nw_eps", "nw", "rf"}

FlightLoop == {"toggle", "recheck", "pump_context", "pump_socket", "pump_ssend",
               "pump_payload", "pump_shutdown"}

OperatingLoop == TelemetryLoop \cup FlightLoop

\* the exchanges of one telemetry pass
TelemetryPass ==
    tcp_connect_commands \o message_to_server \o <<message_from_server>> \o socket_commands
    \o <<nw_eps_reg_status, nw_reg_status, rf_status_command>>

\* the wire history of the operating loop: what follows the signal-quality queries
LoopTraffic ==
    SubSeq(sent, Min(Len(cfg_commands) + attempt + Len(signal_commands), Len(sent)) + 1, Len(sent))

C7_TelemetryPassOrder ==
    (mode = "TELEMETRY" /\ pc \in TelemetryLoop) =>
        /\ \A k \in 1..Len(LoopTraffic) :
              LoopTraffic[k] = TelemetryPass[((k - 1) % Len(TelemetryPass)) + 1]
        /\ Len(log) = Len(LoopTraffic) \div Len(TelemetryPass)
        /\ (pc = "rf") <=> (Len(LoopTraffic) % Len(TelemetryPass) = Len(TelemetryPass) - 1)

\* a pass whose probe and RF query failed has still run to its end and written its record
C7_Witness ==
    /\ mode = "TELEMETRY"
    /\ pc = "tcp_connect"
    /\ LoopTraffic = TelemetryPass
    /\ Len(log) = 1
    /\ ~response.ok
    /\ tcp_status = <<"#","M","S","G",":"," ","N","o","n","e">>

(***************************************************************************)
(* C8: in a telemetry pass the response to one sampling query decides only *)
(* that query's field: the step of a query leaves the fields of the other  *)
(* queries as they are, and the record is appended, whatever the last      *)
(* response was, with the fields of the other queries unchanged.           *)
(***************************************************************************)
C8_FailureTouchesOnlyItsField ==
    [][/\ pc \in {"tcp_connect", "tcp_send", "tcp_recv", "tcp_sock"}
            => UNCHANGED <<nw_eps_status, nw_status, rf_status, log>>
       /\ pc = "nw_eps"
            => /\ UNCHANGED <<tcp_status, nw_status, rf_status, log>>
               /\ ~response'.ok => nw_eps_status' = <<>>
       /\ pc = "nw"
            => /\ UNCHANGED <<tcp_status, nw_eps_status, rf_status, log>>
               /\ ~response'.ok => nw_status' = <<>>
       /\ pc = "rf"
            => /\ UNCHANGED <<tcp_status, nw_eps_status, nw_status>>
               /\ ~response'.ok => rf_status' = <<>>
               /\ \E timestamp \in Clock :
                     log' = Append(log, timestamp \o <<":">> \o rf_status' \o <<":">> \o tcp_status
                                        \o <<":">> \o nw_eps_status \o <<":">> \o nw_status
                                        \o <<"\n">>)
      ]_vars

\* the RF query failed: its field is empty, the other three fields are there
C8_Witness ==
    /\ mode = "TELEMETRY"
    /\ Len(log) = 1
    /\ LastSent = rf_status_command
    /\ ~response.ok
    /\ rf_status = <<>>
    /\ tcp_status # <<>>
    /\ nw_eps_status # <<>>
    /\ nw_status # <<>>
    /\ \E timestamp \in Clock :
          log[1] = timestamp \o <<":">> \o <<":">> \o tcp_status \o <<":">> \o nw_eps_status
                   \o <<":">> \o nw_status \o <<"\n">>

HasMarker(k, marker) == In(marker, log[k])

\* every complete cycle has run a pump burst: its re-check reported attachment
EveryCycleReattached ==
    /\ Count("AT#SH=1", sent) = loops
    /\ Count(cops_check_command, LoopTraffic) = loops

C10_MarkersAlternate ==
    (mode = "FLIGHT" /\ pc = "toggle" /\ cmd_i = 1 /\ EveryCycleReattached) =>
        /\ Len(log) = 2 * loops
        /\ \A k \in 1..Len(log) :
              IF k % 2 = 1
              THEN HasMarker(k, PumpingMarker) /\ ~HasMarker(k, FlightMarker)
              ELSE HasMarker(k, FlightMarker) /\ ~HasMarker(k, PumpingMarker)

\* the spec's scenario: two cycles
C10_Witness ==
    /\ mode = "FLIGHT"
    /\ pc = "toggle"
    /\ cmd_i = 1
    /\ loops = 2
    /\ EveryCycleReattached
    /\ Len(log) = 4

(***************************************************************************)
(* C11: in flight-cycle mode the pumping marker is written and a pump      *)
(* burst is run only in an enable phase, after the settle delay and after  *)
(* a re-check that reported attachment; a re-check that reports no         *)
(* attachment or returns nothing leaves the log and the wire without       *)
(* marker and pump command for that phase, and a disable phase never       *)
(* carries a pump command.                                                 *)
(***************************************************************************)
\* the commands of pump_data_to_server
PumpCommands ==
    {"AT#SGACT=1,1", "AT#SD=1,0,7,\"echo.u-blox.com\",0,0,1", "AT#SSEND=1", pump_dummy_msg,
     "AT#SH=1"}

\* the position in seq, at or before k, of the most recent flight-mode toggle (0: none)
RECURSIVE LastToggle(_, _)
LastToggle(seq, k) ==
    IF k = 0 THEN 0
    ELSE IF seq[k] \in Range(flight_mode_commands) THEN k
    ELSE LastToggle(seq, k - 1)

\* the pumping markers in the log
PumpingMarkers == Cardinality({k \in 1..Len(log) : HasMarker(k, PumpingMarker)})

\* the pump bursts begun so far
BurstsBegun ==
    Count("AT#SGACT=1,1", LoopTraffic) + (IF pc = "pump_context" THEN 1 ELSE 0)

C11_PumpOnlyAfterAttachedRecheck ==
    mode = "FLIGHT" =>
        /\ pc = "recheck" => (LastSent = "AT+CFUN=1" /\ slept = 10)
        /\ JustRechecked =>
              /\ Len(LoopTraffic) >= 2
              /\ LoopTraffic[Len(LoopTraffic) - 1] = "AT+CFUN=1"
              /\ IF ReportsLTE(response)
                 THEN pc = "pump_context" /\ HasMarker(Len(log), PumpingMarker)
                 ELSE pc = "toggle"
        /\ PumpingMarkers = BurstsBegun
        /\ \A k \in 1..Len(LoopTraffic) :
              LoopTraffic[k] \in PumpCommands =>
                 LET t == LastToggle(LoopTraffic, k)
                 IN /\ t > 0
                    /\ LoopTraffic[t] = "AT+CFUN=1"
                    /\ LoopTraffic[t + 1] = cops_check_command

(***************************************************************************)
(* C12: a pump burst sends at most N payloads (5 in the flight cycle), and *)
(* after a send exchange of the burst - AT#SSEND=1 or the payload - that   *)
(* failed or was not acknowledged with OK, the burst sends no further      *)
(* payload: what follows is the socket shutdown.                           *)
(***************************************************************************)
\* the position in seq of the last occurrence of x (0: none)
RECURSIVE LastIndex(_, _, _)
LastIndex(x, seq, k) ==
    IF k = 0 THEN 0 ELSE IF seq[k] = x THEN k ELSE LastIndex(x, seq, k - 1)

\* the wire history of the running, or most recent, pump burst
BurstTraffic ==
    LET b == LastIndex("AT#SGACT=1,1", LoopTraffic, Len(LoopTraffic))
    IN IF b = 0 THEN <<>> ELSE SubSeq(LoopTraffic, b, Len(LoopTraffic))

\* the response acknowledges the exchange
Acknowledged(r) == r.ok /\ In(<<"O","K">>, r.text)

\* the most recent exchange was a send exchange of a pump burst
JustPumped == mode = "FLIGHT" /\ LastSent \in {"AT#SSEND=1", pump_dummy_msg}

C12_BurstStopsAtFirstFailure ==
    mode = "FLIGHT" =>
        /\ Count(pump_dummy_msg, BurstTraffic) <= PumpBurst
        /\ (JustPumped /\ ~Acknowledged(response)) => pc = "pump_shutdown"

(***************************************************************************)
(* C13: the TCP probe never aborts: whatever its stages answer, it issues  *)
(* its connect commands, send commands, receive command and socket-status  *)
(* commands once each, in that order, the next stage always follows, and   *)
(* it returns a summary text.                                              *)
(***************************************************************************)
\* the fixed command sequence of tcp_connection_test
ProbeCommands ==
    tcp_connect_commands \o message_to_server \o <<message_from_server>> \o socket_commands

ProbeStages == {"tcp_connect", "tcp_send", "tcp_recv", "tcp_sock"}

\* the commands the running probe has issued (all of them once it has returned)
ProbeIssued ==
    CASE pc = "tcp_connect" -> cmd_i - 1
      [] pc = "tcp_send" -> Len(tcp_connect_commands) + cmd_i - 1
      [] pc = "tcp_recv" -> Len(tcp_connect_commands) + Len(message_to_server)
      [] pc = "tcp_sock" -> Len(tcp_connect_commands) + Len(message_to_server) + cmd_i
      [] OTHER -> Len(ProbeCommands)

\* the last n elements of seq
Suffix(seq, n) == SubSeq(seq, Len(seq) - Min(n, Len(seq)) + 1, Len(seq))

C13_ProbeNeverAborts ==
    (mode = "TELEMETRY" /\ pc \in ProbeStages \cup {"nw_eps"}) =>
        /\ Len(LoopTraffic) >= ProbeIssued
        /\ Suffix(LoopTraffic, ProbeIssued) = Prefix(ProbeCommands, ProbeIssued)
        /\ (pc \in ProbeStages /\ ProbeIssued > 0) =>
              ENABLED (tcp_connect \/ tcp_send \/ tcp_recv \/ tcp_sock)
        /\ pc = "nw_eps" => startswith(tcp_status, MsgHead)

\* the receive stage and the last socket-status query failed: the probe has still issued
\* its whole sequence and returned a summary
C13_Witness ==
    /\ mode = "TELEMETRY"
    /\ pc = "nw_eps"
    /\ tcp_status = MsgNone
    /\ ~response.ok
    /\ Suffix(sent, Len(ProbeCommands)) = ProbeCommands

(***************************************************************************)
(* C14: whenever the probe's receive stage does not deliver the expected   *)
(* echo - it fails, returns nothing, or returns a text without the marker  *)
(* TCP_TEST_OK - the message-response field of the summary is the no-data  *)
(* marker "#MSG: None".                                                    *)
(***************************************************************************)
\* the receive stage has just been answered
JustReceived == mode = "TELEMETRY" /\ pc = "tcp_sock" /\ cmd_i = 1 /\ LastSent = message_from_server

\* the response carries the echo
Echoed(r) == r.ok /\ In(msg_in_response, r.text)

C14_NoEchoGivesNoDataMarker ==
    (JustReceived /\ ~Echoed(response)) => message_response = <<MsgNone>>

(***************************************************************************)
(* C15: every run of the TCP probe ends with a socket-close command, so    *)
(* that when a telemetry pass starts its probe, every socket-open command  *)
(* of an earlier probe has been followed by a socket close.                *)
(***************************************************************************)
\* the socket-open and socket-close commands of the modem's command set
SocketOpen == "AT#SD=1,0,7,\"echo.u-blox.com\",0,0,1"

SocketClose == "AT#SH=1"

\* the last socket-open command on the wire has not been followed by a socket close
SocketLeftOpen ==
    LET o == LastIndex(SocketOpen, sent, Len(sent))
    IN o > 0 /\ LastIndex(SocketClose, sent, Len(sent)) < o

C15_ProbeClosesItsSocket ==
    mode = "TELEMETRY" =>
        /\ pc = "nw_eps" => (LastSent = SocketClose /\ ~SocketLeftOpen)
        /\ (pc = "tcp_connect" /\ cmd_i = 1) => ~SocketLeftOpen

(***************************************************************************)
(* C16: every record written to a session log - telemetry record, flight-  *)
(* cycle marker, GNSS frame - has been flushed and forced to storage when  *)
(* the task goes on to its next exchange, read or delay: at every such     *)
(* point the storage holds every line written so far, so killing the       *)
(* process there loses nothing that was written.                           *)
(***************************************************************************)
C16_RecordsAreDurable ==
    /\ flushed = Len(log)
    /\ durable = Len(log)
    /\ gnss_flushed = Len(gnss_log)
    /\ gnss_durable = Len(gnss_log)

\* a pumping marker and a GNSS frame are on storage while the pump burst goes on
C16_Witness ==
    /\ mode = "FLIGHT"
    /\ pc = "pump_socket"
    /\ Len(log) = 1
    /\ HasMarker(1, PumpingMarker)
    /\ durable = 1
    /\ Len(gnss_log) = 1
    /\ gnss_durable = 1

(***************************************************************************)
(* C17: the log file of a session is opened exactly once, for appending,   *)
(* and its lines only ever grow at the end: each step leaves the lines     *)
(* already in the file as they are, in their order, and adds at most one   *)
(* line after them.                                                        *)
(***************************************************************************)
\* s is an initial part of t
IsPrefix(shorter, longer) ==
    Len(shorter) <= Len(longer) /\ SubSeq(longer, 1, Len(shorter)) = shorter

C17_LogOnlyGrows ==
    /\ [](file_opens <= 1 /\ (log # <<>> => file_opens = 1))
    /\ [][/\ IsPrefix(log, log')
          /\ Len(log') <= Len(log) + 1
          /\ file_opens' >= file_opens
          /\ file_opens' # file_opens => log' = log
          /\ durable' >= durable]_vars

\* a second line has been appended behind the first
C17_Witness ==
    /\ file_opens = 1
    /\ Len(log) = 2
    /\ HasMarker(1, PumpingMarker)
    /\ HasMarker(2, FlightMarker)
    /\ LastSent = "AT+CFUN=4"

(***************************************************************************)
(* C18: a session runs one operating mode: a telemetry session never sends *)
(* a flight-mode toggle or a command that only the pump sends and never    *)
(* writes an event marker; a flight-cycle session never sends a command    *)
(* that only the telemetry pass sends and writes nothing but event         *)
(* markers; and the mode of a session never changes.                       *)
(***************************************************************************)
\* commands that only the flight cycle and its pump burst send
FlightOnlyCommands == Range(flight_mode_commands) \cup {pump_dummy_msg, "AT#SH=1"}

\* commands that only the telemetry pass sends
TelemetryOnlyCommands ==
    {tcp_connect_commands[1], message_to_server[2], message_to_server[3], message_from_server,
     nw_eps_reg_status, nw_reg_status, rf_status_command}
    \cup Range(socket_commands)

\* line k of the log is an event line
IsEventLine(k) == HasMarker(k, PumpingMarker) \/ HasMarker(k, FlightMarker)

C18_OneModePerSession ==
    /\ [](mode = "TELEMETRY" =>
            /\ pc \notin FlightLoop
            /\ Range(sent) \cap FlightOnlyCommands = {}
            /\ \A k \in 1..Len(log) : ~IsEventLine(k))
    /\ [](mode = "FLIGHT" =>
            /\ pc \notin TelemetryLoop
            /\ Range(sent) \cap TelemetryOnlyCommands = {}
            /\ \A k \in 1..Len(log) : IsEventLine(k))
    /\ [][mode' = mode]_vars

\* a flight-cycle session has completed a cycle with a pump burst
C18_Witness ==
    /\ mode = "FLIGHT"
    /\ pc = "toggle"
    /\ loops = 1
    /\ Len(log) = 2
    /\ Count(pump_dummy_msg, sent) >= 1

(***************************************************************************)
(* C19: with the GNSS task and the modem session running together,         *)
(* neither blocks the other: in every state of the modem session - in an   *)
(* exchange, a poll interval, a settle or dwell delay, or ended - the GNSS *)
(* task that is reading can log its next frame; the modem session can take *)
(* its next step in every state of the GNSS task; a step of one task       *)
(* changes nothing of the other; and the tasks have different ports and    *)
(* different log files.                                                    *)
(***************************************************************************)
GnssVars == <<gnss_ser, gnss_pc, gnss_log, gnss_flushed, gnss_durable>>

ModemVars ==
    <<mode, max_retries, ser, pc, cmd_i, attempt, config_responses, modem_configured, response,
      sent, slept, diag, log, file_opens, message_response, tcp_status, nw_eps_status, nw_status,
      rf_status, max_msg_count, loops, flushed, durable>>

\* the modem session, taken by itself, has a next step within the passes explored
ModemCanStep ==
    /\ pc # "ended"
    /\ pc = "tcp_connect" => loops < MaxRecords
    /\ pc = "toggle" => loops < MaxCycles

C19_TasksDoNotBlockEachOther ==
    /\ []((gnss_pc = "read" /\ Len(gnss_log) < MaxFrames)
            => ENABLED (read_and_log_gnss_data /\ Len(gnss_log') = Len(gnss_log) + 1))
    /\ []((modem_scheduled /\ ModemCanStep) => ENABLED (modem_scheduled /\ Next))
    /\ [][/\ GnssVars' # GnssVars => ModemVars' = ModemVars
          /\ ModemVars' # ModemVars => GnssVars' = GnssVars]_vars
    /\ [](/\ gnss_port # modem_port
          /\ \A t1, t2 \in Clock : create_log_file("gnss", t1) # create_log_file("modem", t2))

\* the GNSS task has logged a frame while the modem session is in its settle delay
C19_Witness ==
    /\ mode = "FLIGHT"
    /\ pc = "recheck"
    /\ slept = 10
    /\ gnss_pc = "read"
    /\ Len(gnss_log) = 1
    /\ Len(sent) > Len(cfg_commands)

(***************************************************************************)
(* C20: run_io_tasks_in_parallel starts every task before it waits for     *)
(* one, and it returns, or raises, only when every task has returned or    *)
(* raised: while a task still runs, the end or failure of another leaves   *)
(* it waiting.                                                             *)
(***************************************************************************)
C20_ReturnsAfterAllTasks ==
    /\ main_pc.at \in {"returned", "raised"} => \A task \in Tasks : done(task)
    /\ main_pc.at \in {"result", "exit", "returned", "raised"}
          => \A task \in Tasks : futures[task] # "unsubmitted"
    /\ (main_pc.at = "exit" /\ \E task \in Tasks : futures[task] = "running")
          => ~ENABLED executor_exit
    /\ main_pc.at = "raised" => \E task \in Tasks : futures[task] = "failed"

\* the GNSS task failed while the modem session was in its bootstrap: the exception goes on
\* only after the modem session has ended too
C20_Witness ==
    /\ main_pc.at = "raised"
    /\ futures["gnss"] = "failed"
    /\ futures["modem"] = "finished"
    /\ pc = "ended"
    /\ modem_configured = "None"

(***************************************************************************)
(* Vocabulary of the executor's contract.                                  *)
(***************************************************************************)
\* a call of com_port_read_write has returned
Exchanged == call.fn = "com_port_read_write" /\ call.n > 0

\* the positions of an operation in the trace of the latest call
PortOps(name) == {k \in DOMAIN port_ops : port_ops[k][1] = name}

C27_OnlyBytesOfThisExchange ==
    (Exchanged /\ call.ret.ok) => call.ret.text = strip(call.arrived)

(***************************************************************************)
(* Vocabulary of the log format.                                           *)
(***************************************************************************)
\* the fields joined by colons behind the timestamp, and a line end
Line(timestamp, fields) ==
    LET RECURSIVE Rest(_)
        Rest(k) == IF k > Len(fields) THEN <<"\n">> ELSE <<":">> \o fields[k] \o Rest(k + 1)
    IN timestamp \o Rest(1)

\* C22: whenever the modem log changes, exactly one line is added behind the lines already
\* there; in a telemetry session it is the timestamp followed by the RF status, the TCP-probe
\* summary, the EPS registration status and the legacy registration status of the pass, in
\* this order, empty or not; in a flight-cycle session it is the timestamp followed by one of
\* the two quoted event markers.
C22_LogLineForms ==
    [][log' # log =>
        \E timestamp \in Clock :
            IF mode = "TELEMETRY"
            THEN log' = Append(log, Line(timestamp, <<rf_status', tcp_status', nw_eps_status',
                                                      nw_status'>>))
            ELSE \E marker \in {PumpingMarker, FlightMarker} :
                    log' = Append(log, Line(timestamp, <<marker>>))]_vars

\* a telemetry line whose RF status is empty and whose TCP-probe summary is not
C22_Witness ==
    /\ mode = "TELEMETRY"
    /\ Len(log) > 0
    /\ pc = "tcp_connect"
    /\ rf_status = <<>>
    /\ tcp_status # <<>>
    /\ \E timestamp \in Clock :
          log[Len(log)] = timestamp \o <<":", ":">> \o tcp_status \o <<":">> \o nw_eps_status
                          \o <<":">> \o nw_status \o <<"\n">>

\* C25: when a registration poll has been answered and another poll follows, the poll
\* interval of one second is slept in between, whatever the poll returned.
C25_SleepBetweenPolls ==
    (JustPolled /\ pc = "register") => slept = 1

(***************************************************************************)
(* Vocabulary of the pump burst.                                           *)
(***************************************************************************)
\* the position of the first x in seq at or after k (0: none)
RECURSIVE FirstIndex(_, _, _)
FirstIndex(x, seq, k) ==
    IF k > Len(seq) THEN 0 ELSE IF seq[k] = x THEN k ELSE FirstIndex(x, seq, k + 1)

\* the exchanges of the running, or most recent, pump burst: from its context command to
\* its socket shutdown
Burst ==
    LET end == FirstIndex("AT#SH=1", BurstTraffic, 1)
    IN IF end = 0 THEN BurstTraffic ELSE SubSeq(BurstTraffic, 1, end)

\* a pump burst has opened its context and not yet shut its socket down
InBurst == pc \in {"pump_socket", "pump_ssend", "pump_payload", "pump_shutdown"}

\* C26: in a flight-cycle session every pump burst opens the data context once and the
\* socket once, in this order, before anything is sent; then come AT#SSEND=1 and the payload
\* in turn, at most N payloads; the burst ends with one AT#SH=1, which is its last exchange,
\* whether all N payloads were sent or the burst stopped early; a burst has at most
\* 2*N + 3 exchanges, and no pump command follows its shutdown before the next burst.
C26_OneSocketSessionPerBurst ==
    mode = "FLIGHT" =>
        LET opened == Count("AT#SGACT=1,1", LoopTraffic)
        IN /\ Count("AT#SD=1,0,7,\"echo.u-blox.com\",0,0,1", LoopTraffic)
                = opened - (IF pc = "pump_socket" THEN 1 ELSE 0)
           /\ Count("AT#SH=1", LoopTraffic) = opened - (IF InBurst THEN 1 ELSE 0)
           /\ pc \in {"pump_ssend", "pump_payload"} => max_msg_count > 0
           /\ opened > 0 =>
                 /\ Len(Burst) <= 2 * PumpBurst + 3
                 /\ Count(pump_dummy_msg, Burst) <= PumpBurst
                 /\ Burst[1] = "AT#SGACT=1,1"
                 /\ Len(Burst) >= 2 => Burst[2] = "AT#SD=1,0,7,\"echo.u-blox.com\",0,0,1"
                 /\ \A k \in 3..Len(Burst) :
                       IF Burst[k] = "AT#SH=1" THEN k = Len(Burst) /\ k % 2 = 1
                       ELSE Burst[k] = (IF k % 2 = 1 THEN "AT#SSEND=1" ELSE pump_dummy_msg)
                 /\ (Burst[Len(Burst)] = "AT#SH=1") <=> ~InBurst
                 /\ \A k \in Len(Burst) + 1..Len(BurstTraffic) : BurstTraffic[k] \notin PumpCommands

\* a burst that stopped at its first payload has shut its socket down
C26_Witness ==
    /\ mode = "FLIGHT"
    /\ pc = "toggle"
    /\ LastSent = "AT#SH=1"
    /\ Burst = <<"AT#SGACT=1,1", "AT#SD=1,0,7,\"echo.u-blox.com\",0,0,1", "AT#SSEND=1",
                 pump_dummy_msg, "AT#SH=1">>

(***************************************************************************)
(* Vocabulary of the bootstrap.  The bootstrap of a session is described   *)
(* once, without reference to the mode: two sessions that each follow this *)
(* description and read the same responses issue the same exchanges and    *)
(* reach the same decision.                                                *)
(***************************************************************************)
BootstrapStages == {"configure", "register", "signal"}

\* the stage a session is in, the operating loops of both modes taken as one stage
Stage(p) == IF p \in OperatingLoop THEN "operate" ELSE p

\* the command written at a stage, i being the position in the stage's command list
BootstrapCommand(stage, i) ==
    CASE stage = "configure" -> cfg_commands[i]
      [] stage = "register" -> cops_check_command
      [] OTHER -> signal_commands[i]

\* the stage that follows when the exchange number i of a stage returned r, after n polls
BootstrapDecision(stage, i, n, retries, r) ==
    CASE stage = "configure" ->
            IF r.ok /\ ~In(<<"O","K">>, r.text) THEN "ended"
            ELSE IF i < Len(cfg_commands) THEN "configure"
            ELSE IF retries = 0 THEN "ended" ELSE "register"
      [] stage = "register" ->
            IF r.ok /\ In(<<"8">>, r.text) THEN "signal"
            ELSE IF n + 1 < retries THEN "register" ELSE "ended"
      [] OTHER -> IF i < Len(signal_commands) THEN "signal" ELSE "operate"

\* the exchanges of a complete bootstrap with n registration polls
BootstrapTraffic(n) ==
    cfg_commands \o [k \in 1..n |-> cops_check_command] \o signal_commands

\* a step of the bootstrap is the step of the mode-free description
BootstrapStepAsDescribed ==
    pc \in BootstrapStages =>
        /\ sent' = Append(sent, BootstrapCommand(pc, cmd_i))
        /\ Stage(pc') = BootstrapDecision(pc, cmd_i, attempt, max_retries, response')
        /\ cmd_i' = (IF pc' = pc /\ pc # "register" THEN cmd_i + 1 ELSE 1)
        /\ attempt' = (IF pc = "register" THEN attempt + 1 ELSE attempt)

\* C29: in either mode every exchange of the bootstrap, and the stage that follows it, is
\* what the mode-free description gives for the stage, the position and the response
\* read; a session in its operating loop has issued the configuration commands in order,
\* the registration polls and each signal-quality query once, and its registration has
\* succeeded; a session that ended has issued no mode-specific command, and in the
\* operating loop the first such command comes after the whole bootstrap.
C29_SharedBootstrap ==
    /\ [](pc \in OperatingLoop =>
            /\ Prefix(sent, Len(BootstrapTraffic(attempt))) = BootstrapTraffic(attempt)
            /\ modem_configured = "True"
            /\ pc \in (IF mode = "FLIGHT" THEN FlightLoop ELSE TelemetryLoop))
    /\ [](pc \notin OperatingLoop =>
            Range(sent) \cap (FlightOnlyCommands \cup TelemetryOnlyCommands) = {})
    /\ [][BootstrapStepAsDescribed]_vars

\* a flight-cycle session has just finished a bootstrap with a repeated registration poll
C29_Witness ==
    /\ mode = "FLIGHT"
    /\ pc = "toggle"
    /\ attempt = 2
    /\ sent = BootstrapTraffic(2)

(***************************************************************************)
(* Vocabulary of the timestamp round trip.                                 *)
(***************************************************************************)
\* the timestamp the logger wrote at the head of a line
Written(line) == CHOOSE timestamp \in Clock : startswith(line, timestamp \o <<":">>)

\* C30: for every line of the modem log parse_line returns the timestamp the logger wrote,
\* for every line of the GNSS log parse_gnss_log does, and so a modem line and a GNSS line
\* written in the same second have equal timestamp keys.
C30_TimestampRoundTrip ==
    /\ \A k \in 1..Len(log) : parse_line(log[k]).timestamp = Written(log[k])
    /\ \A j \in 1..Len(gnss_log) : parse_gnss_timestamp(gnss_log[j]) = Written(gnss_log[j])
    /\ \A k \in 1..Len(log), j \in 1..Len(gnss_log) :
          Written(log[k]) = Written(gnss_log[j]) =>
              parse_line(log[k]).timestamp = parse_gnss_timestamp(gnss_log[j])

(***************************************************************************)
(* Vocabulary of the status filters.                                       *)
(***************************************************************************)
RegistrationPrefixes ==
    {<<"+","C","E","R","E","G",":">>, <<"+","C","R","E","G",":">>, <<"+","C","O","P","S",":">>}

RfPrefixes == {<<"#","R","F","S","T","S",":">>}

\* the lines that begin with one of the prefixes, in their order
Kept(lines, prefixes) ==
    SelectSeq(lines, LAMBDA l : \E p \in prefixes :
                                   Len(p) <= Len(l) /\ \A i \in 1..Len(p) : l[i] = p[i])

\* the lines one after the other with a space in between
RECURSIVE Spaced(_)
Spaced(lines) ==
    IF lines = <<>> THEN <<>>
    ELSE lines[1] \o (IF Len(lines) = 1 THEN <<>> ELSE <<" ">> \o Spaced(Tail(lines)))

\* a status filter has returned
Filtered(f) == call.fn = f /\ call.n = 1

\* C28: check_network_status returns the lines of the response that begin with +CEREG:,
\* +CREG: or +COPS:, and check_rf_status those that begin with #RFSTS:, in their order and
\* separated by a space; every other line is left out; with no such line, and after a failed
\* exchange, the result is the empty text.
C28_StatusFilters ==
    /\ Filtered("check_network_status") =>
          call.ret = (IF call.args.ok THEN Spaced(Kept(call.lines, RegistrationPrefixes))
                      ELSE <<>>)
    /\ Filtered("check_rf_status") =>
          call.ret = (IF call.args.ok THEN Spaced(Kept(call.lines, RfPrefixes)) ELSE <<>>)

\* a response whose first line holds the prefix behind a space: only the second line is kept
C28_Witness ==
    /\ Filtered("check_rf_status")
    /\ Len(call.lines) = 2
    /\ call.lines[1] = <<" ","#","R","F","S","T","S",":"," ","1">>
    /\ call.ret = call.lines[2]
    /\ call.ret # <<>>

(***************************************************************************)
(* Vocabulary of the signal quality.                                       *)
(***************************************************************************)
\* calculate_signal_quality has returned
Scored == call.fn = "calculate_signal_quality" /\ call.n = 1

\* C24: the result of calculate_signal_quality is the mean of four components, each one of
\* 10, 20, 30 and 40; with RSRP from -102 to -85, RSSI below -85, RSRQ at least -5 and SINR
\* at least 12.5 the components are 30, 10, 40 and 40 and the result is 30.0.
C24_SampleQuality ==
    Scored =>
        LET rsrp == call.args[1]
            rssi == call.args[2]
            rsrq == call.args[3]
            sinr == call.args[4]
            components == <<rsrp_quality(rsrp), rssi_quality(rssi), rsrq_quality(rsrq, rssi),
                            sinr_quality(sinr)>>
        IN /\ \A k \in 1..4 : components[k] \in {10, 20, 30, 40}
           /\ 4 * call.ret = 10 * (components[1] + components[2] + components[3] + components[4])
           /\ (rsrp >= -102 /\ rsrp <= -85 /\ rssi < -85 /\ rsrq >= -50 /\ sinr >= 125) =>
                 /\ components = <<30, 10, 40, 40>>
                 /\ call.ret = 300

\* the sample line's RSRP and RSSI, with RSRQ and SINR at their thresholds
C24_Witness ==
    /\ Scored
    /\ call.args = <<-90, -95, -50, 125>>
    /\ call.ret = 300

(***************************************************************************)
(* Vocabulary of the selector.                                             *)
(***************************************************************************)
\* a task has been started
Started(task) == futures[task] # "unsubmitted"

\* the tasks that belong to a value of the selector
TasksOf(select) ==
    CASE select \in {1, 4} -> {"gnss", "modem"}
      [] select = 2 -> {"gnss"}
      [] select = 3 -> {"modem"}
      [] OTHER -> {}

\* the main program has gone past the point where it starts its tasks
PastStart == main_pc.at \in {"direct", "result", "exit", "returned", "raised"}

\* C23: the selector does not change; only tasks that belong to its value are ever
\* started, and only their ports are ever opened: the GNSS task for 1, 2 and 4, the modem
\* session for 1, 3 and 4, in telemetry mode for 1 and 3 and in flight-cycle mode for 4,
\* nothing for any other value; once the main program is past its start, all of them are
\* started.
C23_SelectorDeterminesTasks ==
    /\ [](/\ \A task \in Tasks : Started(task) => task \in TasksOf(SELECT_LOGGING)
          /\ gnss_ser # "unopened" => "gnss" \in TasksOf(SELECT_LOGGING)
          /\ ser # "unopened" => "modem" \in TasksOf(SELECT_LOGGING)
          /\ Started("modem") => mode = (IF SELECT_LOGGING = 4 THEN "FLIGHT" ELSE "TELEMETRY")
          /\ PastStart => \A task \in TasksOf(SELECT_LOGGING) : Started(task)
          /\ (SELECT_LOGGING \notin 1..4 /\ main_pc.at # "match") =>
                /\ main_pc.at = "returned"
                /\ sent = <<>> /\ log = <<>> /\ gnss_log = <<>>)
    /\ [][SELECT_LOGGING' = SELECT_LOGGING]_vars

\* with the selector at 4 the GNSS task and the flight-cycle session run at the same time,
\* each with its port open
C23_Witness ==
    /\ SELECT_LOGGING = 4
    /\ futures["gnss"] = "running"
    /\ futures["modem"] = "running"
    /\ gnss_ser = "open"
    /\ ser = "open"
    /\ pc \in FlightLoop
    /\ gnss_log # <<>>

(***************************************************************************)
(* Vocabulary of the marker order.                                         *)
(***************************************************************************)
\* a disable phase writes the flight-mode marker, whatever its command is answered
DisablePhaseWritesMarker ==
    (mode = "FLIGHT" /\ pc = "toggle" /\ flight_mode_commands[cmd_i] = "AT+CFUN=4"
        /\ sent' # sent) =>
        /\ Len(log') = Len(log) + 1
        /\ In(FlightMarker, log'[Len(log')])

\* C31: in a flight-cycle session a pumping marker in the log is never followed by another
\* pumping marker without a flight-mode marker in between, and every disable phase adds a
\* flight-mode marker to the log, whatever the modem answered to the disable command.
C31_NoTwoPumpingMarkersInARow ==
    /\ [](mode = "FLIGHT" =>
            \A j \in 1..Len(log), k \in 1..Len(log) :
                (j < k /\ HasMarker(j, PumpingMarker) /\ HasMarker(k, PumpingMarker)) =>
                    \E m \in (j + 1)..(k - 1) : HasMarker(m, FlightMarker))
    /\ [][DisablePhaseWritesMarker]_vars

\* two cycles with a pump burst each; the second disable command was not acknowledged, and
\* its flight-mode marker is in the log all the same
C31_Witness ==
    /\ mode = "FLIGHT"
    /\ LastSent = "AT+CFUN=4"
    /\ ~Acknowledged(response)
    /\ Len(log) = 4
    /\ HasMarker(1, PumpingMarker)
    /\ HasMarker(2, FlightMarker)
    /\ HasMarker(3, PumpingMarker)
    /\ HasMarker(4, FlightMarker)

(***************************************************************************)
(* Vocabulary of the failed start.                                         *)
(***************************************************************************)
\* configure_sim_module returned False: a configuration command was rejected
RejectedStart == modem_configured = "False"

\* configure_sim_module returned None: the registration attempts are used up
ExhaustedStart == modem_configured = "None"

\* start_serial_connection returned None
PortStart == ser = "None"

\* C32: a session whose configuration was rejected, whose registration attempts are used up
\* or whose port could not be opened has ended; it has opened no log file and written no
\* log line, its last step reported the failure on the diagnostic stream, nothing of the
\* operating part was sent and no step remains; and a session ends in no other way.
C32_FailedStartLeavesNoLog ==
    /\ (RejectedStart \/ ExhaustedStart \/ PortStart) =>
          /\ pc = "ended"
          /\ file_opens = 0
          /\ log = <<>>
          /\ flushed = 0
          /\ Range(sent) \cap OperatingCommands = {}
          /\ ~ENABLED Next
    /\ RejectedStart =>
          /\ "Failed to configure modem.." \in Range(diag)
          /\ LastSent \in Range(cfg_commands)
          /\ sent = Prefix(cfg_commands, Len(sent))
    /\ ExhaustedStart =>
          /\ "Failed to configure modem.." \in Range(diag)
          /\ attempt = max_retries
          /\ sent = cfg_commands \o [k \in 1..attempt |-> cops_check_command]
    /\ PortStart =>
          /\ "failed to get modem serial connection" \in Range(diag)
          /\ sent = <<>>
    /\ pc = "ended" => (RejectedStart \/ ExhaustedStart \/ PortStart)

\* every registration attempt was used without success
C32_Witness ==
    /\ ExhaustedStart
    /\ attempt = MaxRetries
    /\ pc = "ended"
    /\ file_opens = 0
    /\ LastSent = cops_check_command

\* C33: the RSRQ component of the score depends on the RSRQ value alone: the same call with
\* another RSSI has the same RSRQ component, and its result differs from this one by the
\* difference of the two RSSI components, divided by four.
C33_RsrqComponentIgnoresRssi ==
    Scored =>
        \A other \in RssiValues :
            LET rsrp == call.args[1]
                rssi == call.args[2]
                rsrq == call.args[3]
                sinr == call.args[4]
            IN /\ rsrq_quality(rsrq, other) = rsrq_quality(rsrq, rssi)
               /\ 4 * (calculate_signal_quality(rsrp, other, rsrq, sinr) - call.ret)
                     = 10 * (rssi_quality(other) - rssi_quality(rssi))
====
